---- MODULE Spec2Model ----
(***************************************************************************)
(* SpectroTrace: the background-job contract around the image-to-audio     *)
(* synthesis engine.                                                       *)
(*                                                                         *)
(*   main thread : useGeneration  (app/icon1.tsx)                         *)
(*                 useAudioWorker (app/hooks/useAudioWorker.ts)            *)
(*   worker      : audioWorker    (app/sw/sw.ts)                           *)
(*   engine      : generatePCM    (app/lib/audio/generateFromImage.ts)     *)
(*   parameters  : lib/audio/types (unnamed/part_010)                      *)
(*                                                                         *)
(* The two threads exchange messages over two FIFO channels (postMessage). *)
(* The worker's onmessage handler is synchronous: the worker takes the     *)
(* next request only when the previous handler has returned, while the     *)
(* main thread keeps running between any two columns of the engine loop.   *)
(*                                                                         *)
(* Numbers are exact: progress x/W*100*0.9 is kept as a fraction and       *)
(* rounded as Math.round does (floor(v + 1/2)).                            *)
(***************************************************************************)
EXTENDS Integers, Sequences, FiniteSets, TLC

\* ------------------------------------------------------------------------
\* Bounds of the model
\* ------------------------------------------------------------------------
MaxJobs == 2
MaxWidth == 11
MaxCancels == 1
MaxCalls == 2
MaxEnvPosts == 2
MaxSamples == 2
MaxHeight == 4
MaxCols == 3
MaxRows == 2
MaxSynCalls == 2

\* ------------------------------------------------------------------------
\* Program constants
\* ------------------------------------------------------------------------
PROGRESS_INTERVAL == 10
SUBSAMPLE_THRESHOLD == 2000 * 2000
MAX_TARGET_PIXELS == 2000 * 2000

\* null of a job id, of a progress value, of an error string
Null == 0
NullProgress == -1
NoError == "<null>"
\* the not-a-number value of a JavaScript number
NaN == -999999

\* ------------------------------------------------------------------------
\* lib/audio/types: ConversionParams
\* ------------------------------------------------------------------------
SAMPLE_RATES == {22050, 44100, 48000}

PARAM_RANGES ==
  [duration  |-> [min |-> 1,   max |-> 60],
   minFreq   |-> [min |-> 20,  max |-> 2000],
   maxFreq   |-> [min |-> 500, max |-> 22000],
   smoothing |-> [min |-> 0,   max |-> 100]]

DEFAULT_CONVERSION_PARAMS ==
  [duration |-> 8, minFreq |-> 50, maxFreq |-> 16000,
   frequencyScale |-> "logarithmic", sampleRate |-> 44100,
   brightnessCurve |-> "linear", invertImage |-> FALSE, smoothing |-> 15]

ParamFields == DOMAIN DEFAULT_CONVERSION_PARAMS

\* { ...DEFAULT_CONVERSION_PARAMS, ...params } for a partial params object
MergeDefaults(p) ==
  [f \in ParamFields |-> IF f \in DOMAIN p THEN p[f] ELSE DEFAULT_CONVERSION_PARAMS[f]]

\* Math.max / Math.min: NaN if either argument is NaN
MathMax(a, b) == IF a = NaN \/ b = NaN THEN NaN ELSE IF a >= b THEN a ELSE b
MathMin(a, b) == IF a = NaN \/ b = NaN THEN NaN ELSE IF a <= b THEN a ELSE b
\* a + b on JavaScript numbers
JsAdd(a, b) == IF a = NaN \/ b = NaN THEN NaN ELSE a + b
\* a >= b, a < b, a > b on JavaScript numbers: false when either is NaN
JsGe(a, b) == a # NaN /\ b # NaN /\ a >= b
JsLt(a, b) == a # NaN /\ b # NaN /\ a < b
JsGt(a, b) == a # NaN /\ b # NaN /\ a > b

clamp(value, min, max) == MathMin(max, MathMax(min, value))

validateFrequencyRange(minFreq, maxFreq) == JsGe(minFreq, maxFreq)

\* TRUE when validateParamValue returns an error for the field
validateParamValue(field, value) ==
  CASE field \in {"duration", "minFreq", "maxFreq", "smoothing"} ->
         value = NaN \/ JsLt(value, PARAM_RANGES[field].min)
                     \/ JsGt(value, PARAM_RANGES[field].max)
    [] field = "sampleRate" -> value \notin SAMPLE_RATES
    [] field = "frequencyScale" -> value \notin {"logarithmic", "linear"}
    [] field = "brightnessCurve" ->
         value \notin {"linear", "exponential", "logarithmic"}
    [] field = "invertImage" -> value \notin BOOLEAN

\* the set of fields validateConversionParams reports (the cross-field error
\* is reported on minFreq)
validateConversionParams(params) ==
  {f \in ParamFields : validateParamValue(f, params[f])}
    \cup (IF validateFrequencyRange(params.minFreq, params.maxFreq)
          THEN {"minFreq"} ELSE {})

SanitizeClamped(base) ==
  [duration  |-> clamp(base.duration, PARAM_RANGES.duration.min, PARAM_RANGES.duration.max),
   minFreq   |-> clamp(base.minFreq, PARAM_RANGES.minFreq.min, PARAM_RANGES.minFreq.max),
   maxFreq   |-> clamp(base.maxFreq, PARAM_RANGES.maxFreq.min, PARAM_RANGES.maxFreq.max),
   smoothing |-> clamp(base.smoothing, PARAM_RANGES.smoothing.min, PARAM_RANGES.smoothing.max),
   frequencyScale |-> IF base.frequencyScale = "linear" THEN "linear" ELSE "logarithmic",
   sampleRate |-> IF base.sampleRate \in SAMPLE_RATES THEN base.sampleRate ELSE 44100,
   brightnessCurve |-> IF base.brightnessCurve = "exponential" THEN "exponential"
                       ELSE IF base.brightnessCurve = "logarithmic" THEN "logarithmic"
                       ELSE "linear",
   invertImage |-> base.invertImage]

SanitizeRepair(s) ==
  IF JsGe(s.minFreq, s.maxFreq)
  THEN LET s1 == [s EXCEPT !.maxFreq = MathMin(JsAdd(s.minFreq, 500), PARAM_RANGES.maxFreq.max)]
       IN  IF JsGe(s1.minFreq, s1.maxFreq)
           THEN [s1 EXCEPT !.minFreq = JsAdd(s1.maxFreq, -500)]
           ELSE s1
  ELSE s

sanitizeConversionParams(params) == SanitizeRepair(SanitizeClamped(MergeDefaults(params)))

\* ------------------------------------------------------------------------
\* State
\* ------------------------------------------------------------------------
VARIABLES
  \* workers/audioWorker
  currentJobId,     \* id of the active job, Null when none
  isCancelled,      \* cancellation flag of the current job
  wpc,              \* position of the worker: "idle", "columns", "encode"
  wreq,             \* payload of the generate request being handled
  pcm,              \* the generatePCM call in progress
  \* channels
  requests,         \* every request posted to the worker, in order
  taken,            \* how many of them the worker has taken
  posted,           \* every response posted to the main thread, in order
  delivered,        \* how many of them handleMessage has handled
  \* hooks/useAudioWorker
  currentJobIdRef,
  state,
  nextJobId,        \* generateJobId: ids are unique, here 1, 2, ...
  \* hooks/useGeneration
  localState,
  usedParams,
  pending,          \* generate() calls awaiting imageToGrayscaleData
  calls,            \* number of generate() calls made
  started,          \* generate() calls that reached generateAudio, with their job
  cancelledIn,      \* generate() calls in flight at a cancel(), with their stage
  \* observation
  midCancel,        \* jobs for which cancel was requested mid-synthesis
  \* lib/audio/types, sanitizeConversionParams applied to an input
  pIn, pOut,
  \* hooks/useConversionParams
  paramsState,      \* the state of conversionParamsReducer
  \* calls of the pure functions of lib/audio, each with its arguments and result
  wav,              \* encodeWavStereo
  norm,             \* normalizePCM
  freq,             \* computeRowFrequencies
  subs,             \* calculateSubsamplingFactors and the effective size
  rng,              \* the column sample ranges of generatePCM
  syn               \* generatePCM, sample by sample

vars == <<currentJobId, isCancelled, wpc, wreq, pcm, requests, taken, posted,
          delivered, currentJobIdRef, state, nextJobId, localState, usedParams,
          pending, calls, started, cancelledIn, midCancel, pIn, pOut, paramsState,
          wav, norm, freq, subs, rng, syn>>

workerVars == <<currentJobId, isCancelled, wpc, wreq, pcm>>
hookVars == <<currentJobIdRef, state, nextJobId>>
genVars == <<localState, usedParams, pending, calls, started, cancelledIn>>
paramVars == <<pIn, pOut, paramsState>>
pureVars == <<wav, norm, freq, subs, rng, syn>>
systemVars == <<workerVars, requests, taken, posted, delivered, hookVars, genVars,
                midCancel>>

\* no call in progress
NoCallOf == [status |-> "none"]

\* ------------------------------------------------------------------------
\* lib/audio/generateFromImage: the engine, one call of generatePCM
\* ------------------------------------------------------------------------
\* Math.floor(a / b) + 1 in place of Math.ceil(a / b)
FloorDivPlusOne(a, b) == a \div b + 1

\* Math.ceil(a / b) for integers a >= 0, b > 0
CeilDiv(a, b) == (a + b - 1) \div b

\* the least t >= s with t*t*q >= p
RECURSIVE CeilSqrtFrom(_, _, _)
CeilSqrtFrom(s, p, q) == IF s * s * q >= p THEN s ELSE CeilSqrtFrom(s + 1, p, q)

\* Math.ceil(Math.sqrt(p / q)) for p > q > 0: the least s with s*s*q >= p
CeilSqrtRatio(p, q) == CeilSqrtFrom(1, p, q)

calculateSubsamplingFactors(width, height) ==
  IF width * height <= SUBSAMPLE_THRESHOLD
  THEN [stepX |-> 1, stepY |-> 1]
  ELSE LET step == CeilSqrtRatio(width * height, MAX_TARGET_PIXELS)
       IN  [stepX |-> step, stepY |-> step]

\* a progress value handed to onProgress, as the fraction num/den
Frac(n, d) == [num |-> n, den |-> d]

\* Math.round(n/d) for n >= 0, d > 0
MathRound(n, d) == (2 * n + d) \div (2 * d)

\* no call of generatePCM in progress
NoCall ==
  [status |-> "none", error |-> NoError, W |-> 0, H |-> 0, x |-> 0, polls |-> 0,
   progress |-> <<>>, written |-> {}]

\* PCMStart with the loop state kept at module level instead of per call
PCMStartHoisted(input) ==
  IF input.len # input.width * input.height
  THEN [NoCall EXCEPT !.status = "thrown", !.error = "Data size mismatch"]
  ELSE IF input.width <= 0 \/ input.height <= 0
  THEN [NoCall EXCEPT !.status = "thrown", !.error = "Image dimensions must be positive"]
  ELSE LET st == calculateSubsamplingFactors(input.width, input.height)
       IN  [pcm EXCEPT !.status = "running", !.error = NoError,
                       !.W = CeilDiv(input.width, st.stepX),
                       !.H = CeilDiv(input.height, st.stepY)]

\* generatePCM up to the column loop: input validation and set-up
PCMStart(input) ==
  IF input.len # input.width * input.height
  THEN [NoCall EXCEPT !.status = "thrown", !.error = "Data size mismatch"]
  ELSE IF input.width <= 0 \/ input.height <= 0
  THEN [NoCall EXCEPT !.status = "thrown", !.error = "Image dimensions must be positive"]
  ELSE LET st == calculateSubsamplingFactors(input.width, input.height)
       IN  [NoCall EXCEPT !.status = "running",
                          !.W = CeilDiv(input.width, st.stepX),
                          !.H = CeilDiv(input.height, st.stepY)]

\* PCMColumn with the progress report placed before the cancellation check
PCMColumnProgressFirst(e, cancelled) ==
  LET reported == IF e.x % PROGRESS_INTERVAL = 0
                  THEN Append(e.progress, Frac(e.x * 100, e.W)) ELSE e.progress
  IN  IF cancelled
      THEN [e EXCEPT !.status = "thrown", !.error = "CANCELLED", !.polls = @ + 1,
                     !.progress = reported]
      ELSE [e EXCEPT !.polls = @ + 1, !.progress = reported,
                     !.written = @ \cup {e.x}, !.x = @ + 1]

\* a column loop that does not advance x
PCMColumnNoAdvance(e, cancelled) == e

\* one iteration of the column loop; cancelled is what isCancelled() returns
PCMColumn(e, cancelled) ==
  IF cancelled
  THEN [e EXCEPT !.status = "thrown", !.error = "CANCELLED", !.polls = @ + 1]
  ELSE [e EXCEPT !.polls = @ + 1,
                 !.progress = IF e.x % PROGRESS_INTERVAL = 0
                              THEN Append(@, Frac(e.x * 100, e.W)) ELSE @,
                 !.written = @ \cup {e.x},
                 !.x = @ + 1]

\* PCMFinish without the final onProgress(100)
PCMFinishSilent(e) == [e EXCEPT !.status = "returned"]

\* after the loop: normalizePCM, the final onProgress(100), return output
PCMFinish(e) ==
  [e EXCEPT !.status = "returned", !.progress = Append(@, Frac(100, 1))]

\* ------------------------------------------------------------------------
\* Messages (lib/audio/types: WorkerRequest, WorkerResponse)
\* ------------------------------------------------------------------------
NoInput == [width |-> 0, height |-> 0, len |-> 0]
NullBuf == [src |-> Null, cols |-> {}]

GenerateRequest(jobId, input, params) ==
  [type |-> "generate", jobId |-> jobId, input |-> input, params |-> params]
CancelRequest(jobId) ==
  [type |-> "cancel", jobId |-> jobId, input |-> NoInput,
   params |-> DEFAULT_CONVERSION_PARAMS]
NoReq == CancelRequest(Null)

Response(type, jobId, progress, audioBuffer, message, code) ==
  [type |-> type, jobId |-> jobId, progress |-> progress,
   audioBuffer |-> audioBuffer, message |-> message, code |-> code]
ReadyMsg == Response("ready", Null, NullProgress, NullBuf, NoError, "")
ProgressMsg(jobId, p) == Response("progress", jobId, p, NullBuf, NoError, "")
ResultMsg(jobId, buf) == Response("result", jobId, NullProgress, buf, NoError, "")
ErrorMsg(jobId, message, code) ==
  Response("error", jobId, NullProgress, NullBuf, message, code)

\* ------------------------------------------------------------------------
\* workers/audioWorker
\* ------------------------------------------------------------------------
\* reportProgress: the value is rounded with Math.round
reportProgress(jobId, frac) == ProgressMsg(jobId, MathRound(frac.num, frac.den))

\* OnProgress without the 0.9 scaling
OnProgressUnscaled(jobId, frac) == reportProgress(jobId, frac)

\* the onProgress callback generateAudio passes to generatePCM:
\* reportProgress(jobId, progress * 0.9)
OnProgress(jobId, frac) == reportProgress(jobId, Frac(frac.num * 9, frac.den * 10))

\* the isCancelled callback generateAudio passes to generatePCM
IsCancelledCb(jobId) == isCancelled /\ currentJobId = jobId

\* the messages of the progress values from index n + 1 on
RECURSIVE ProgressFrom(_, _, _)
ProgressFrom(jobId, progress, n) ==
  IF n >= Len(progress) THEN <<>>
  ELSE <<OnProgress(jobId, progress[n + 1])>> \o ProgressFrom(jobId, progress, n + 1)

\* the catch block of the generate case
CatchError(error, jobId) ==
  IF error = "CANCELLED"
  THEN ErrorMsg(jobId, "Generation cancelled", "CANCELLED")
  ELSE ErrorMsg(jobId, error, "GENERATION_FAILED")

\* a finally block that leaves currentJobId set
FinallyJobIdStale(jobId) == jobId

\* the finally block of the generate case
FinallyJobId(jobId) == Null

\* the buffer encodeWavStereo returns for the samples of call e, as made for jobId
WavBuffer(jobId, e) == [src |-> jobId, cols |-> e.written]

\* EncodeMessages with the result posted before the last progress report
EncodeMessagesResultFirst(jobId, e) ==
  <<ResultMsg(jobId, WavBuffer(jobId, e)), reportProgress(jobId, Frac(100, 1))>>

\* generateAudio after generatePCM returned, and the result message
EncodeMessages(jobId, e) ==
  <<reportProgress(jobId, Frac(100, 1)), ResultMsg(jobId, WavBuffer(jobId, e))>>

\* case "generate": job state init, generateAudio up to the column loop
WorkerGenerate ==
  /\ wpc = "idle"
  /\ taken < Len(requests)
  /\ requests[taken + 1].type = "generate"
  /\ LET m == requests[taken + 1]
         e == PCMStart(m.input)
     IN  /\ taken' = taken + 1
         /\ isCancelled' = FALSE
         /\ pcm' = e
         /\ IF e.status = "thrown"
            THEN /\ posted' = Append(posted, CatchError(e.error, m.jobId))
                 /\ currentJobId' = FinallyJobId(m.jobId)
                 /\ wpc' = "idle"
                 /\ wreq' = NoReq
            ELSE /\ currentJobId' = m.jobId
                 /\ wpc' = "columns"
                 /\ wreq' = m
                 /\ UNCHANGED posted
  /\ UNCHANGED <<requests, delivered, hookVars, genVars, midCancel, paramVars, pureVars>>

\* one column of generatePCM inside the worker
WorkerColumn ==
  /\ wpc = "columns"
  /\ pcm.x < pcm.W
  /\ LET e == PCMColumn(pcm, IsCancelledCb(wreq.jobId))
     IN  /\ pcm' = e
         /\ IF e.status = "thrown"
            THEN /\ posted' = Append(posted, CatchError(e.error, wreq.jobId))
                 /\ currentJobId' = FinallyJobId(wreq.jobId)
                 /\ wpc' = "idle"
                 /\ wreq' = NoReq
            ELSE /\ posted' = posted \o ProgressFrom(wreq.jobId, e.progress, Len(pcm.progress))
                 /\ UNCHANGED <<currentJobId, wpc, wreq>>
  /\ UNCHANGED <<isCancelled, requests, taken, delivered, hookVars, genVars,
                 midCancel, paramVars, pureVars>>

\* generatePCM returns; reportProgress(jobId, 95)
WorkerPCMReturn ==
  /\ wpc = "columns"
  /\ pcm.x = pcm.W
  /\ LET e == PCMFinish(pcm)
     IN  /\ pcm' = e
         /\ posted' = posted \o ProgressFrom(wreq.jobId, e.progress, Len(pcm.progress))
                             \o <<reportProgress(wreq.jobId, Frac(95, 1))>>
  /\ wpc' = "encode"
  /\ UNCHANGED <<currentJobId, isCancelled, wreq, requests, taken, delivered,
                 hookVars, genVars, midCancel, paramVars, pureVars>>

\* encodeWavStereo, reportProgress(jobId, 100), the result message, finally
WorkerEncode ==
  /\ wpc = "encode"
  /\ posted' = posted \o EncodeMessages(wreq.jobId, pcm)
  /\ currentJobId' = FinallyJobId(wreq.jobId)
  /\ wpc' = "idle"
  /\ wreq' = NoReq
  /\ UNCHANGED <<isCancelled, pcm, requests, taken, delivered, hookVars, genVars,
                 midCancel, paramVars, pureVars>>

\* the cancel case setting the flag whatever the job id
CancelFlagAnyJob(current, jobId, flag) == TRUE

\* if (currentJobId === jobId) isCancelled = true: the flag after the case
CancelFlag(current, jobId, flag) == IF current = jobId THEN TRUE ELSE flag

\* case "cancel"
WorkerCancel ==
  /\ wpc = "idle"
  /\ taken < Len(requests)
  /\ requests[taken + 1].type = "cancel"
  /\ taken' = taken + 1
  /\ isCancelled' = CancelFlag(currentJobId, requests[taken + 1].jobId, isCancelled)
  /\ UNCHANGED <<currentJobId, wpc, wreq, pcm, requests, posted, delivered,
                 hookVars, genVars, midCancel, paramVars, pureVars>>

\* ------------------------------------------------------------------------
\* Inputs
\* ------------------------------------------------------------------------
\* what imageToGrayscaleData produces: data.length = width * height
Images == {[width |-> w, height |-> 1, len |-> w] : w \in {1, MaxWidth}}

\* inputs generatePCM rejects
InvalidInputs ==
  {[width |-> 2, height |-> 1, len |-> 3],
   [width |-> 0, height |-> 0, len |-> 0],
   [width |-> -1, height |-> -1, len |-> 1]}

\* options.params of a generate() call
ParamChoices == {[duration |-> 8], [minFreq |-> 3000, maxFreq |-> 100]}

\* ------------------------------------------------------------------------
\* hooks/useConversionParams
\* ------------------------------------------------------------------------
\* errors holds the fields validateConversionParams reports
initialState ==
  [params |-> DEFAULT_CONVERSION_PARAMS, errors |-> {}, isDirty |-> FALSE]

\* conversionParamsReducer(state, action)
conversionParamsReducer(st, action) ==
  CASE action.type = "SET_PARAMS" ->
         LET sanitized == sanitizeConversionParams(action.payload)
         IN  [params |-> sanitized, errors |-> validateConversionParams(sanitized),
              isDirty |-> TRUE]
    [] action.type = "UPDATE_PARAM" ->
         LET newParams ==
               [st.params EXCEPT ![action.payload.key] = action.payload.value]
             sanitized == sanitizeConversionParams(newParams)
         IN  [params |-> sanitized, errors |-> validateConversionParams(sanitized),
              isDirty |-> TRUE]
    [] action.type = "RESET" -> initialState
    [] OTHER -> st

\* ------------------------------------------------------------------------
\* hooks/useAudioWorker
\* ------------------------------------------------------------------------
InitialWorkerState ==
  [isBusy |-> FALSE, isReady |-> FALSE, progress |-> NullProgress,
   result |-> NullBuf, error |-> NoError, currentJobId |-> Null]

\* handleMessage accepting a result whatever its job id
handleMessageAnyResult(st, ref, m) ==
  CASE m.type = "ready" -> [st EXCEPT !.isReady = TRUE]
    [] m.type = "progress" ->
         IF m.jobId = ref THEN [st EXCEPT !.progress = m.progress] ELSE st
    [] m.type = "result" ->
         [st EXCEPT !.isBusy = FALSE, !.progress = 100,
                    !.result = m.audioBuffer, !.error = NoError]
    [] m.type = "error" ->
         IF m.jobId = Null \/ m.jobId = ref
         THEN [st EXCEPT !.isBusy = FALSE, !.progress = NullProgress,
                         !.error = m.message]
         ELSE st

\* handleMessage storing an error without clearing isBusy
handleMessageErrorStaysBusy(st, ref, m) ==
  CASE m.type = "ready" -> [st EXCEPT !.isReady = TRUE]
    [] m.type = "progress" ->
         IF m.jobId = ref THEN [st EXCEPT !.progress = m.progress] ELSE st
    [] m.type = "result" ->
         IF m.jobId = ref
         THEN [st EXCEPT !.isBusy = FALSE, !.progress = 100,
                         !.result = m.audioBuffer, !.error = NoError]
         ELSE st
    [] m.type = "error" ->
         IF m.jobId = Null \/ m.jobId = ref
         THEN [st EXCEPT !.progress = NullProgress, !.error = m.message]
         ELSE st

\* handleMessage: the hook state after message m, ref being currentJobIdRef.current
handleMessage(st, ref, m) ==
  CASE m.type = "ready" -> [st EXCEPT !.isReady = TRUE]
    [] m.type = "progress" ->
         IF m.jobId = ref THEN [st EXCEPT !.progress = m.progress] ELSE st
    [] m.type = "result" ->
         IF m.jobId = ref
         THEN [st EXCEPT !.isBusy = FALSE, !.progress = 100,
                         !.result = m.audioBuffer, !.error = NoError]
         ELSE st
    [] m.type = "error" ->
         IF m.jobId = Null \/ m.jobId = ref
         THEN [st EXCEPT !.isBusy = FALSE, !.progress = NullProgress,
                         !.error = m.message]
         ELSE st

\* the message event listener of the worker
HandleMessage ==
  /\ delivered < Len(posted)
  /\ state' = handleMessage(state, currentJobIdRef, posted[delivered + 1])
  /\ delivered' = delivered + 1
  /\ UNCHANGED <<workerVars, requests, taken, posted, currentJobIdRef, nextJobId,
                 genVars, midCancel, paramVars, pureVars>>

\* generateAudio(grayscaleData, width, height, params)
generateAudio(input, params) ==
  /\ nextJobId <= MaxJobs
  /\ currentJobIdRef' = nextJobId
  /\ nextJobId' = nextJobId + 1
  /\ state' = [state EXCEPT !.isBusy = TRUE, !.progress = 0, !.result = NullBuf,
                            !.error = NoError, !.currentJobId = nextJobId]
  /\ requests' = Append(requests,
                        GenerateRequest(nextJobId, input, MergeDefaults(params)))

\* reset() of useAudioWorker
ResetWorkerState(st) ==
  [st EXCEPT !.progress = NullProgress, !.result = NullBuf, !.error = NoError]

\* a caller of useAudioWorker starts a job on one of the inputs
CallGenerateAudioOn(inputs) ==
  /\ \E input \in inputs :
       generateAudio(input, [duration |-> DEFAULT_CONVERSION_PARAMS.duration])
  /\ UNCHANGED <<workerVars, taken, posted, delivered, genVars, midCancel, paramVars, pureVars>>

CallGenerateAudio == CallGenerateAudioOn(Images \cup InvalidInputs)

NumCancels == Cardinality({i \in 1..Len(requests) : requests[i].type = "cancel"})

\* cancelJob() with a job id in currentJobIdRef: the cancel request is posted
PostCancel ==
  /\ NumCancels < MaxCancels
  /\ currentJobIdRef # Null
  /\ requests' = Append(requests, CancelRequest(currentJobIdRef))
  /\ midCancel' = IF /\ wpc = "columns"
                     /\ currentJobId = currentJobIdRef
                     /\ pcm.x + 1 < pcm.W
                  THEN midCancel \cup {currentJobIdRef} ELSE midCancel

\* cancelJob(), called by a caller of useAudioWorker
cancelJob ==
  /\ PostCancel
  /\ UNCHANGED <<workerVars, taken, posted, delivered, hookVars, genVars, paramVars, pureVars>>

\* ------------------------------------------------------------------------
\* hooks/useGeneration
\* ------------------------------------------------------------------------
computeStatus(ls, ws) ==
  IF ls.status = "preprocessing" THEN "preprocessing"
  ELSE IF ls.preprocessingError # NoError THEN "error"
  ELSE IF ws.error # NoError THEN "error"
  ELSE IF ws.isBusy THEN "generating"
  ELSE IF ws.result # NullBuf THEN "ready"
  ELSE "idle"

status == computeStatus(localState, state)

\* generate(image, crop, options) up to the await of imageToGrayscaleData
generate ==
  /\ calls < MaxCalls
  /\ \E p \in ParamChoices :
       pending' = pending \cup {[call |-> calls + 1, params |-> p,
                                 during |-> {t.call : t \in pending}]}
  /\ calls' = calls + 1
  /\ localState' = [status |-> "preprocessing", preprocessingError |-> NoError]
  /\ state' = ResetWorkerState(state)
  /\ UNCHANGED <<workerVars, requests, taken, posted, delivered, currentJobIdRef,
                 nextJobId, usedParams, started, cancelledIn, midCancel, paramVars,
                 pureVars>>

\* generate() resumes with the grayscale data
PreprocessResolved ==
  /\ \E t \in pending, img \in Images :
       LET fullParams == sanitizeConversionParams(MergeDefaults(t.params))
       IN  /\ pending' = pending \ {t}
           /\ usedParams' = {fullParams}
           /\ generateAudio(img, fullParams)
           /\ started' = started \cup {[call |-> t.call, job |-> nextJobId,
                                         params |-> fullParams, during |-> t.during]}
  /\ localState' = [status |-> "idle", preprocessingError |-> NoError]
  /\ calls' = calls
  /\ UNCHANGED <<workerVars, taken, posted, delivered, cancelledIn, midCancel,
                 paramVars, pureVars>>

\* generate() resumes with imageToGrayscaleData rejected
PreprocessRejected ==
  /\ \E t \in pending : pending' = pending \ {t}
  /\ localState' = [status |-> "idle", preprocessingError |-> "Failed to preprocess image"]
  /\ UNCHANGED <<workerVars, requests, taken, posted, delivered, hookVars,
                 usedParams, calls, started, cancelledIn, midCancel, paramVars,
                 pureVars>>

\* the generate() calls in flight: those awaiting imageToGrayscaleData, and
\* the one whose job the hook is busy with while the worker has not answered it
InFlight ==
  {[call |-> t.call, stage |-> "preprocessing"] : t \in pending}
    \cup {[call |-> t.call, stage |-> "generating"] :
            t \in {u \in started : /\ state.isBusy
                                    /\ u.job = currentJobIdRef
                                    /\ \A i \in 1..Len(posted) :
                                          posted[i].jobId = u.job =>
                                            posted[i].type = "progress"}}

\* cancel() of useGeneration: it calls cancelJob() and does nothing else;
\* cancelJob() posts nothing when currentJobIdRef holds no job id
cancel ==
  /\ InFlight # {}
  /\ \/ PostCancel
     \/ currentJobIdRef = Null /\ UNCHANGED <<requests, midCancel>>
  /\ cancelledIn' = cancelledIn \cup InFlight
  /\ UNCHANGED <<workerVars, taken, posted, delivered, hookVars, localState,
                 usedParams, pending, calls, started, paramVars, pureVars>>

\* reset() of useGeneration
reset ==
  /\ localState' = [status |-> "idle", preprocessingError |-> NoError]
  /\ usedParams' = {}
  /\ state' = ResetWorkerState(state)
  /\ UNCHANGED <<workerVars, requests, taken, posted, delivered, currentJobIdRef,
                 nextJobId, pending, calls, started, cancelledIn, midCancel,
                 paramVars, pureVars>>

\* ------------------------------------------------------------------------
\* The system: main thread and worker
\* ------------------------------------------------------------------------
Init ==
  /\ currentJobId = Null
  /\ isCancelled = FALSE
  /\ wpc = "idle"
  /\ wreq = NoReq
  /\ pcm = NoCall
  /\ requests = <<>>
  /\ taken = 0
  /\ posted = <<ReadyMsg>>
  /\ delivered = 0
  /\ currentJobIdRef = Null
  /\ state = InitialWorkerState
  /\ nextJobId = 1
  /\ localState = [status |-> "idle", preprocessingError |-> NoError]
  /\ usedParams = {}
  /\ pending = {}
  /\ calls = 0
  /\ midCancel = {}
  /\ pIn = DEFAULT_CONVERSION_PARAMS
  /\ pOut = {}
  /\ wav = NoCallOf
  /\ norm = NoCallOf
  /\ freq = NoCallOf
  /\ subs = NoCallOf
  /\ rng = NoCallOf
  /\ syn = NoCallOf
  /\ started = {}
  /\ cancelledIn = {}
  /\ paramsState = initialState

\* the main thread and the worker before anything has happened
SystemAtRest ==
  /\ Init!1 /\ Init!2 /\ Init!3 /\ Init!4 /\ Init!5 /\ Init!6 /\ Init!7 /\ Init!8
  /\ Init!9 /\ Init!10 /\ Init!11 /\ Init!12 /\ Init!13 /\ Init!14 /\ Init!15
  /\ Init!16 /\ Init!17 /\ Init!18 /\ Init!19 /\ Init!26 /\ Init!27 /\ Init!28

\* no call of a pure function in progress
PureAtRest ==
  /\ wav = NoCallOf /\ norm = NoCallOf /\ freq = NoCallOf
  /\ subs = NoCallOf /\ rng = NoCallOf /\ syn = NoCallOf

\* a caller of useAudioWorker calls reset()
CallReset ==
  /\ state' = ResetWorkerState(state)
  /\ UNCHANGED <<workerVars, requests, taken, posted, delivered, currentJobIdRef,
                 nextJobId, genVars, midCancel, paramVars, pureVars>>

WorkerNext ==
  \/ WorkerGenerate
  \/ WorkerColumn
  \/ WorkerPCMReturn
  \/ WorkerEncode
  \/ WorkerCancel

\* worker and useAudioWorker, under any caller of the hook's actions
Next ==
  \/ WorkerNext
  \/ HandleMessage
  \/ CallGenerateAudio
  \/ cancelJob
  \/ CallReset

Spec == Init /\ [][Next]_vars

\* the worker keeps taking requests and running its handler, and the main
\* thread keeps dispatching the message events of the worker
SpecLive == Spec /\ WF_vars(WorkerNext) /\ WF_vars(HandleMessage)

\* worker, useAudioWorker and useGeneration: the application
NextGen ==
  \/ WorkerNext
  \/ HandleMessage
  \/ cancel
  \/ generate
  \/ PreprocessResolved
  \/ PreprocessRejected
  \/ reset

SpecGen == Init /\ [][NextGen]_vars

\* ------------------------------------------------------------------------
\* The hook alone, facing any worker that speaks the protocol
\* ------------------------------------------------------------------------
IssuedJobs == 1..(nextJobId - 1)

\* the responses of the protocol about the jobs issued so far
EnvMessages ==
  UNION {{ProgressMsg(j, 50),
          ResultMsg(j, [src |-> j, cols |-> {0}]),
          ErrorMsg(j, "Generation cancelled", "CANCELLED"),
          ErrorMsg(j, "Data size mismatch", "GENERATION_FAILED")} : j \in IssuedJobs}

\* the worker posts a response
EnvPost ==
  /\ Len(posted) <= MaxEnvPosts
  /\ \E m \in EnvMessages : posted' = Append(posted, m)
  /\ UNCHANGED <<workerVars, requests, taken, delivered, hookVars, genVars,
                 midCancel, paramVars, pureVars>>

\* the hook forwards the input untouched: one image is enough here
CallGenerateAudioHook == CallGenerateAudioOn({[width |-> 1, height |-> 1, len |-> 1]})

NextHook ==
  \/ EnvPost
  \/ HandleMessage
  \/ CallGenerateAudioHook
  \/ cancelJob
  \/ CallReset

SpecHook == Init /\ [][NextHook]_vars

\* ------------------------------------------------------------------------
\* One call of generatePCM with any isCancelled callback
\* ------------------------------------------------------------------------
PCMInputs ==
  {[width |-> w, height |-> h, len |-> w * h] : w \in 1..MaxWidth, h \in 1..2}
    \cup InvalidInputs

InitPCM ==
  /\ Init!1 /\ Init!2 /\ Init!3
  /\ wreq \in {GenerateRequest(1, input, DEFAULT_CONVERSION_PARAMS) : input \in PCMInputs}
  /\ pcm = NoCall
  /\ requests = <<>> /\ taken = 0 /\ posted = <<ReadyMsg>> /\ delivered = 0
  /\ currentJobIdRef = Null /\ state = InitialWorkerState /\ nextJobId = 1
  /\ localState = [status |-> "idle", preprocessingError |-> NoError]
  /\ usedParams = {} /\ pending = {} /\ calls = 0 /\ midCancel = {}
  /\ started = {} /\ cancelledIn = {} /\ paramsState = initialState
  /\ pIn = DEFAULT_CONVERSION_PARAMS /\ pOut = {}
  /\ PureAtRest

\* generatePCM is called: validation and set-up
PCMCall ==
  /\ pcm.status = "none"
  /\ pcm' = PCMStart(wreq.input)
  /\ UNCHANGED <<currentJobId, isCancelled, wpc, wreq, requests, taken, posted,
                 delivered, hookVars, genVars, midCancel, paramVars, pureVars>>

\* one column, the poll answering either way
PCMStep ==
  /\ pcm.status = "running"
  /\ pcm.x < pcm.W
  /\ \E cancelled \in BOOLEAN : pcm' = PCMColumn(pcm, cancelled)
  /\ UNCHANGED <<currentJobId, isCancelled, wpc, wreq, requests, taken, posted,
                 delivered, hookVars, genVars, midCancel, paramVars, pureVars>>

\* the loop is over
PCMReturn ==
  /\ pcm.status = "running"
  /\ pcm.x = pcm.W
  /\ pcm' = PCMFinish(pcm)
  /\ UNCHANGED <<currentJobId, isCancelled, wpc, wreq, requests, taken, posted,
                 delivered, hookVars, genVars, midCancel, paramVars, pureVars>>

NextPCM == PCMCall \/ PCMStep \/ PCMReturn

SpecPCM == InitPCM /\ [][NextPCM]_vars

\* ------------------------------------------------------------------------
\* sanitizeConversionParams on any params object
\* ------------------------------------------------------------------------
ParamInputs ==
  [duration : {NaN, 0, 1, 60, 61},
   minFreq : {NaN, 10, 20, 1999, 2000, 2500},
   maxFreq : {NaN, 100, 500, 2000, 22000, 30000},
   smoothing : {NaN, -5, 50, 101},
   frequencyScale : {"linear", "logarithmic", "mel"},
   sampleRate : {8000, 44100, 48000},
   brightnessCurve : {"linear", "exponential", "logarithmic", "gamma"},
   invertImage : {TRUE}]

InitParams ==
  /\ Init!1 /\ Init!2 /\ Init!3 /\ Init!4 /\ Init!5
  /\ requests = <<>> /\ taken = 0 /\ posted = <<ReadyMsg>> /\ delivered = 0
  /\ currentJobIdRef = Null /\ state = InitialWorkerState /\ nextJobId = 1
  /\ localState = [status |-> "idle", preprocessingError |-> NoError]
  /\ usedParams = {} /\ pending = {} /\ calls = 0 /\ midCancel = {}
  /\ started = {} /\ cancelledIn = {} /\ paramsState = initialState
  /\ pIn \in ParamInputs
  /\ pOut = {}
  /\ PureAtRest

Sanitize ==
  /\ pOut = {}
  /\ pOut' = {sanitizeConversionParams(pIn)}
  /\ UNCHANGED <<workerVars, requests, taken, posted, delivered, hookVars, genVars,
                 midCancel, pIn, paramsState, pureVars>>

SpecParams == InitParams /\ [][Sanitize]_vars

\* ------------------------------------------------------------------------
\* conversionParamsReducer under any sequence of actions
\* ------------------------------------------------------------------------
\* payloads of setParams(params)
SetPayloads ==
  [duration : {NaN, 0, 61},
   minFreq : {10, 2500},
   maxFreq : {100, 22000},
   smoothing : {101},
   frequencyScale : {"mel"},
   sampleRate : {8000},
   brightnessCurve : {"exponential"},
   invertImage : {TRUE}]

\* values of updateParam(key, value), by key
UpdateValues ==
  [duration |-> {NaN, 0, 30, 61},
   minFreq |-> {NaN, 10, 1999, 2500},
   maxFreq |-> {NaN, 100, 2000, 30000},
   smoothing |-> {NaN, -5, 101},
   frequencyScale |-> {"linear", "mel"},
   sampleRate |-> {8000, 22050},
   brightnessCurve |-> {"exponential", "gamma"},
   invertImage |-> BOOLEAN]

\* the reducer's new state is the only change
Dispatch(action) ==
  /\ paramsState' = conversionParamsReducer(paramsState, action)
  /\ UNCHANGED <<workerVars, requests, taken, posted, delivered, hookVars, genVars,
                 midCancel, pIn, pOut, pureVars>>

\* setParams(params)
DispatchSetParams ==
  \E payload \in SetPayloads : Dispatch([type |-> "SET_PARAMS", payload |-> payload])

\* updateParam(key, value)
DispatchUpdateParam ==
  \E key \in ParamFields : \E value \in UpdateValues[key] :
     Dispatch([type |-> "UPDATE_PARAM", payload |-> [key |-> key, value |-> value]])

\* reset() of useConversionParams
DispatchReset == Dispatch([type |-> "RESET"])

NextReducer ==
  \/ DispatchSetParams
  \/ DispatchUpdateParam
  \/ DispatchReset

SpecReducer == Init /\ [][NextReducer]_vars

\* ------------------------------------------------------------------------
\* lib/audio/wavEncoder: encodeWavStereo
\* ------------------------------------------------------------------------
WAV_HEADER_SIZE == 44
NUM_CHANNELS == 2
BITS_PER_SAMPLE == 16
BYTES_PER_SAMPLE == BITS_PER_SAMPLE \div 8

\* a sample is a number in thousandths (SampleOne is 1.0), or NaN
SampleOne == 1000

\* the char codes of the chunk identifiers
CharCodes(str) ==
  CASE str = "RIFF" -> <<82, 73, 70, 70>>
    [] str = "WAVE" -> <<87, 65, 86, 69>>
    [] str = "fmt " -> <<102, 109, 116, 32>>
    [] str = "data" -> <<100, 97, 116, 97>>

\* the bytes written at byte offset `offset` of the buffer
WriteBytes(buf, offset, bytes) ==
  [i \in 1..Len(buf) |->
     IF i - 1 >= offset /\ i - 1 < offset + Len(bytes) THEN bytes[i - offset] ELSE buf[i]]

writeString(buf, offset, str) == WriteBytes(buf, offset, CharCodes(str))

\* the number v truncated toward zero, for v = n/d
Trunc(n, d) == IF n >= 0 THEN n \div d ELSE -((-n) \div d)

\* DataView.setUint32(offset, v, false): most significant byte first
Uint32BytesBigEndian(v) ==
  <<(v \div 16777216) % 256, (v \div 65536) % 256, (v \div 256) % 256, v % 256>>

\* DataView.setUint32(offset, v, true): the four bytes of v modulo 2^32, least
\* significant first
Uint32Bytes(v) ==
  <<v % 256, (v \div 256) % 256, (v \div 65536) % 256, (v \div 16777216) % 256>>

\* DataView.setUint16(offset, v, true): the two bytes of v modulo 2^16
Uint16Bytes(v) == <<v % 256, (v \div 256) % 256>>

\* DataView.setInt16(offset, v, true) for a number v in thousandths: ToInt16
\* truncates v, reduces it modulo 2^16, and NaN becomes 0
Int16Bytes(v) ==
  LET i == IF v = NaN THEN 0 ELSE Trunc(v, SampleOne)
  IN  <<i % 256, (i \div 256) % 256>>

clampSample(sample) == MathMax(-SampleOne, MathMin(SampleOne, sample))

\* floatToInt16 without the clamp
floatToInt16Unclamped(sample) ==
  IF sample = NaN THEN NaN
  ELSE IF sample < 0 THEN sample * 32768 ELSE sample * 32767

\* floatToInt16: the scaled number, in thousandths
floatToInt16(sample) ==
  LET clamped == clampSample(sample)
  IN  IF clamped = NaN THEN NaN
      ELSE IF clamped < 0 THEN clamped * 32768 ELSE clamped * 32767

\* the header part of encodeWavStereo
WavHeader(buf, numSamples, sampleRate) ==
  LET blockAlign == NUM_CHANNELS * BYTES_PER_SAMPLE
      byteRate == sampleRate * blockAlign
      dataSize == numSamples * NUM_CHANNELS * BYTES_PER_SAMPLE
      fileSize == WAV_HEADER_SIZE + dataSize
      b1 == writeString(buf, 0, "RIFF")
      b2 == WriteBytes(b1, 4, Uint32Bytes(fileSize - 8))
      b3 == writeString(b2, 8, "WAVE")
      b4 == writeString(b3, 12, "fmt ")
      b5 == WriteBytes(b4, 16, Uint32Bytes(16))
      b6 == WriteBytes(b5, 20, Uint16Bytes(1))
      b7 == WriteBytes(b6, 22, Uint16Bytes(NUM_CHANNELS))
      b8 == WriteBytes(b7, 24, Uint32Bytes(sampleRate))
      b9 == WriteBytes(b8, 28, Uint32Bytes(byteRate))
      b10 == WriteBytes(b9, 32, Uint16Bytes(blockAlign))
      b11 == WriteBytes(b10, 34, Uint16Bytes(BITS_PER_SAMPLE))
      b12 == writeString(b11, 36, "data")
  IN  WriteBytes(b12, 40, Uint32Bytes(dataSize))

\* the sample loop of encodeWavStereo from sample i (counted from 1) on
RECURSIVE WavSamples(_, _, _, _)
WavSamples(buf, monoData, i, offset) ==
  IF i > Len(monoData) THEN buf
  ELSE LET int16Sample == floatToInt16(monoData[i])
           left == WriteBytes(buf, offset, Int16Bytes(int16Sample))
           right == WriteBytes(left, offset + BYTES_PER_SAMPLE, Int16Bytes(int16Sample))
       IN  WavSamples(right, monoData, i + 1, offset + 2 * BYTES_PER_SAMPLE)

\* the size of a file of one byte per channel sample
WavFileSizeOneByte(numSamples) == WAV_HEADER_SIZE + numSamples * NUM_CHANNELS

\* const fileSize = WAV_HEADER_SIZE + dataSize
WavFileSize(numSamples) ==
  WAV_HEADER_SIZE + numSamples * NUM_CHANNELS * BYTES_PER_SAMPLE

encodeWavStereo(monoData, sampleRate) ==
  LET numSamples == Len(monoData)
      fileSize == WavFileSize(numSamples)
      buffer == [i \in 1..fileSize |-> 0]
  IN  WavSamples(WavHeader(buffer, numSamples, sampleRate), monoData, 1, WAV_HEADER_SIZE)

\* reading a WAV file back
getUint32(buf, offset) ==
  buf[offset + 1] + 256 * buf[offset + 2] + 65536 * buf[offset + 3]
    + 16777216 * buf[offset + 4]
getUint16(buf, offset) == buf[offset + 1] + 256 * buf[offset + 2]
getInt16(buf, offset) ==
  LET u == getUint16(buf, offset) IN IF u >= 32768 THEN u - 65536 ELSE u

\* the samples handed to the encoder: inside, on and outside [-1, 1], and NaN
SampleChoices == {NaN, -1500, -1000, -300, 0, 500, 1000, 1500}

RECURSIVE SeqsUpTo(_, _)
SeqsUpTo(S, n) ==
  IF n = 0 THEN {<<>>}
  ELSE LET shorter == SeqsUpTo(S, n - 1)
       IN  shorter \cup {Append(q, e) : q \in {t \in shorter : Len(t) = n - 1}, e \in S}

WavInputs ==
  {[status |-> "called", monoData |-> d, sampleRate |-> r, file |-> <<>>] :
     d \in SeqsUpTo(SampleChoices, MaxSamples), r \in SAMPLE_RATES}

InitWav ==
  /\ SystemAtRest
  /\ wav \in WavInputs
  /\ norm = NoCallOf /\ freq = NoCallOf /\ subs = NoCallOf
  /\ rng = NoCallOf /\ syn = NoCallOf

\* encodeWavStereo(monoData, sampleRate) returns
EncodeWav ==
  /\ wav.status = "called"
  /\ wav' = [wav EXCEPT !.status = "returned",
                        !.file = encodeWavStereo(wav.monoData, wav.sampleRate)]
  /\ UNCHANGED <<systemVars, paramVars, norm, freq, subs, rng, syn>>

SpecWav == InitWav /\ [][EncodeWav]_vars

\* ------------------------------------------------------------------------
\* lib/audio/generateFromImage: normalizePCM
\* ------------------------------------------------------------------------
\* buffer values are exact fractions num/den, den > 0
FracLt(a, b) == a.num * b.den < b.num * a.den
FracEq(a, b) == a.num * b.den = b.num * a.den
RECURSIVE Gcd(_, _)
Gcd(a, b) == IF b = 0 THEN a ELSE Gcd(b, a % b)
\* the same number in lowest terms
Reduced(a) ==
  LET g == Gcd(IF a.num < 0 THEN -a.num ELSE a.num, a.den)
  IN  Frac(a.num \div g, a.den \div g)
FracMul(a, b) == Reduced(Frac(a.num * b.num, a.den * b.den))
FracDiv(a, b) == Reduced(Frac(a.num * b.den, a.den * b.num))
MathAbs(a) == IF a.num < 0 THEN Frac(-a.num, a.den) ELSE a

NORMALIZATION_HEADROOM == Frac(9, 10)

\* the peak search of normalizePCM from element i on
RECURSIVE FindPeak(_, _, _)
FindPeak(buffer, i, peak) ==
  IF i > Len(buffer) THEN peak
  ELSE LET abs == MathAbs(buffer[i])
       IN  FindPeak(buffer, i + 1, IF FracLt(peak, abs) THEN abs ELSE peak)

\* normalizePCM scaling only buffers above the headroom
normalizePCMLoudOnly(buffer) ==
  IF Len(buffer) = 0 THEN buffer
  ELSE LET peak == FindPeak(buffer, 1, Frac(0, 1))
       IN  IF peak.num = 0 THEN buffer
           ELSE LET gain == FracDiv(NORMALIZATION_HEADROOM, peak)
                IN  IF FracLt(NORMALIZATION_HEADROOM, peak)
                    THEN [i \in 1..Len(buffer) |-> FracMul(buffer[i], gain)]
                    ELSE buffer

\* normalizePCM amplifying quiet buffers only
normalizePCMQuietOnly(buffer) ==
  IF Len(buffer) = 0 THEN buffer
  ELSE LET peak == FindPeak(buffer, 1, Frac(0, 1))
       IN  IF peak.num = 0 THEN buffer
           ELSE LET gain == FracDiv(NORMALIZATION_HEADROOM, peak)
                IN  IF FracLt(peak, Frac(1, 10))
                    THEN [i \in 1..Len(buffer) |-> FracMul(buffer[i], gain)]
                    ELSE buffer

\* normalizePCM: the buffer after the call
normalizePCM(buffer) ==
  IF Len(buffer) = 0 THEN buffer
  ELSE LET peak == FindPeak(buffer, 1, Frac(0, 1))
       IN  IF peak.num = 0 THEN buffer
           ELSE LET gain == FracDiv(NORMALIZATION_HEADROOM, peak)
                IN  IF FracLt(NORMALIZATION_HEADROOM, peak) \/ FracLt(peak, Frac(1, 10))
                    THEN [i \in 1..Len(buffer) |-> FracMul(buffer[i], gain)]
                    ELSE buffer

\* samples in thousandths: silent, quiet, on both thresholds, loud
NormSamples == {-1500, -900, -99, 0, 50, 100, 500, 901}

NormInputs ==
  {[status |-> "called",
    input |-> [i \in 1..Len(d) |-> Frac(d[i], SampleOne)],
    buffer |-> [i \in 1..Len(d) |-> Frac(d[i], SampleOne)]] :
     d \in SeqsUpTo(NormSamples, MaxSamples)}

InitNorm ==
  /\ SystemAtRest
  /\ norm \in NormInputs
  /\ wav = NoCallOf /\ freq = NoCallOf /\ subs = NoCallOf
  /\ rng = NoCallOf /\ syn = NoCallOf

\* normalizePCM(buffer) returns, the buffer modified in place
NormalizeBuffer ==
  /\ norm.status = "called"
  /\ norm' = [norm EXCEPT !.status = "returned", !.buffer = normalizePCM(norm.buffer)]
  /\ UNCHANGED <<systemVars, paramVars, wav, freq, subs, rng, syn>>

SpecNorm == InitNorm /\ [][NormalizeBuffer]_vars

\* ------------------------------------------------------------------------
\* workers/audioWorker: generateAudio from the end of the column loop on
\* ------------------------------------------------------------------------
\* a buffer value in thousandths
Thousandths(a) == (a.num * SampleOne) \div a.den

\* what the column loop may have left in the output buffer, in thousandths:
\* silent, quiet, moderate and loud sums of sines
RawSamples == {-1500, -750, -50, -25, 0, 25, 50, 100, 500, 900, 1000, 1500}

\* the output buffers whose normalized values are whole thousandths
PipelineInputs ==
  {[status |-> "called",
    input |-> [i \in 1..Len(d) |-> Frac(d[i], SampleOne)],
    buffer |-> [i \in 1..Len(d) |-> Frac(d[i], SampleOne)]] :
     d \in {q \in SeqsUpTo(RawSamples, MaxSamples) :
              LET n == normalizePCM([i \in 1..Len(q) |-> Frac(q[i], SampleOne)])
              IN  \A i \in 1..Len(q) : (n[i].num * SampleOne) % n[i].den = 0}}

\* generatePCM has left its column loop
InitPipeline ==
  /\ SystemAtRest
  /\ norm \in PipelineInputs
  /\ wav = NoCallOf /\ freq = NoCallOf /\ subs = NoCallOf
  /\ rng = NoCallOf /\ syn = NoCallOf

\* generatePCM has returned audioData; encodeWavStereo(audioData, params.sampleRate)
PipelineEncode ==
  /\ norm.status = "returned"
  /\ wav.status = "none"
  /\ \E r \in SAMPLE_RATES :
       LET audioData == [i \in 1..Len(norm.buffer) |-> Thousandths(norm.buffer[i])]
       IN  wav' = [status |-> "returned", monoData |-> audioData, sampleRate |-> r,
                   file |-> encodeWavStereo(audioData, r)]
  /\ UNCHANGED <<systemVars, paramVars, norm, freq, subs, rng, syn>>

SpecPipeline == InitPipeline /\ [][NormalizeBuffer \/ PipelineEncode]_vars

\* ------------------------------------------------------------------------
\* lib/audio/generateFromImage: computeRowFrequencies
\* ------------------------------------------------------------------------
RECURSIVE IntPow(_, _)
IntPow(b, n) == IF n = 0 THEN 1 ELSE b * IntPow(b, n - 1)

\* the d-th root of a, for a a perfect d-th power
IntRoot(a, d) == CHOOSE q \in 1..a : IntPow(q, d) = a

\* Math.sqrt(a) for a perfect square a
MathSqrt(a) == IntRoot(a, 2)

FracSub(a, b) == Reduced(Frac(a.num * b.den - b.num * a.den, a.den * b.den))

\* Math.pow(ratio, t) for fractions ratio > 0 and 0 <= t <= 1, where ratio is
\* the power of a fraction to the denominator of t
MathPow(ratio, t) ==
  LET e == Reduced(t)
      r == Reduced(ratio)
  IN  IF e.num = 0 THEN Frac(1, 1)
      ELSE Frac(IntPow(IntRoot(r.num, e.den), e.num), IntPow(IntRoot(r.den, e.den), e.num))

\* computeRowFrequenciesLog with t running from 0 at row 0 to 1 at the last row
computeRowFrequenciesLogAscending(height, minFreq, maxFreq) ==
  IF height <= 0 THEN <<>>
  ELSE IF height = 1 THEN <<Frac(MathSqrt(minFreq * maxFreq), 1)>>
  ELSE LET ratio == Frac(maxFreq, minFreq)
       IN  [i \in 1..height |->
              LET y == i - 1
                  t == Frac(y, height - 1)
              IN  FracMul(Frac(minFreq, 1), MathPow(ratio, t))]

\* computeRowFrequenciesLog: row y of the image is element y + 1
computeRowFrequenciesLog(height, minFreq, maxFreq) ==
  IF height <= 0 THEN <<>>
  ELSE IF height = 1 THEN <<Frac(MathSqrt(minFreq * maxFreq), 1)>>
  ELSE LET ratio == Frac(maxFreq, minFreq)
       IN  [i \in 1..height |->
              LET y == i - 1
                  t == FracSub(Frac(1, 1), Frac(y, height - 1))
              IN  FracMul(Frac(minFreq, 1), MathPow(ratio, t))]

computeRowFrequenciesLinear(height, minFreq, maxFreq) ==
  IF height <= 0 THEN <<>>
  ELSE IF height = 1 THEN <<Reduced(Frac(minFreq + maxFreq, 2))>>
  ELSE LET range == maxFreq - minFreq
       IN  [i \in 1..height |->
              LET y == i - 1
                  t == Frac(y, height - 1)
              IN  FracSub(Frac(maxFreq, 1), FracMul(t, Frac(range, 1)))]

computeRowFrequencies(height, minFreq, maxFreq, scale) ==
  IF scale = "logarithmic"
  THEN computeRowFrequenciesLog(height, minFreq, maxFreq)
  ELSE computeRowFrequenciesLinear(height, minFreq, maxFreq)

\* heights and frequency ranges; under the logarithmic scale those for which
\* Math.pow and Math.sqrt have exact values
FreqInputs ==
  {[status |-> "called", height |-> h, minFreq |-> lo, maxFreq |-> lo * IntPow(q, h - 1),
    scale |-> "logarithmic", frequencies |-> <<>>] :
      h \in 2..MaxHeight, lo \in {20, 50, 100, 200, 440}, q \in {2, 3}}
  \cup
  {[status |-> "called", height |-> h, minFreq |-> r[1], maxFreq |-> r[2],
    scale |-> "logarithmic", frequencies |-> <<>>] :
      h \in 0..1, r \in {<<20, 500>>, <<50, 800>>}}
  \cup
  {[status |-> "called", height |-> h, minFreq |-> r[1], maxFreq |-> r[2],
    scale |-> "linear", frequencies |-> <<>>] :
      h \in 0..MaxHeight,
      r \in {<<20, 500>>, <<50, 16000>>, <<2000, 22000>>, <<1999, 2000>>, <<440, 880>>}}

InitFreq ==
  /\ SystemAtRest
  /\ freq \in FreqInputs
  /\ wav = NoCallOf /\ norm = NoCallOf /\ subs = NoCallOf
  /\ rng = NoCallOf /\ syn = NoCallOf

\* computeRowFrequencies(height, minFreq, maxFreq, scale) returns
ComputeFrequencies ==
  /\ freq.status = "called"
  /\ freq' = [freq EXCEPT !.status = "returned",
                          !.frequencies = computeRowFrequencies(freq.height, freq.minFreq,
                                                                freq.maxFreq, freq.scale)]
  /\ UNCHANGED <<systemVars, paramVars, wav, norm, subs, rng, syn>>

SpecFreq == InitFreq /\ [][ComputeFrequencies]_vars

\* ------------------------------------------------------------------------
\* lib/audio/generateFromImage: subsampling of large images
\* ------------------------------------------------------------------------
\* image sizes around the threshold and around four times the threshold
SubsInputs ==
  {[status |-> "called", width |-> w, height |-> h, len |-> w * h,
    stepX |-> 0, stepY |-> 0, effectiveWidth |-> 0, effectiveHeight |-> 0,
    x |-> 0, y |-> 0, srcX |-> 0, srcY |-> 0, pixelIndex |-> 0] :
      w \in {1, 1999, 2000, 2001, 4000, 4001, 6001, 8000, 16000, 500000},
      h \in {1, 2, 1999, 2000, 2001, 3999, 4000}}

InitSubs ==
  /\ SystemAtRest
  /\ subs \in SubsInputs
  /\ wav = NoCallOf /\ norm = NoCallOf /\ freq = NoCallOf
  /\ rng = NoCallOf /\ syn = NoCallOf

\* generatePCM: calculateSubsamplingFactors, effectiveWidth and effectiveHeight
Subsample ==
  /\ subs.status = "called"
  /\ LET st == calculateSubsamplingFactors(subs.width, subs.height)
     IN  subs' = [subs EXCEPT !.status = "returned",
                              !.stepX = st.stepX, !.stepY = st.stepY,
                              !.effectiveWidth = CeilDiv(subs.width, st.stepX),
                              !.effectiveHeight = CeilDiv(subs.height, st.stepY)]
  /\ UNCHANGED <<systemVars, paramVars, wav, norm, freq, rng, syn>>

\* columns and rows of the loops: the first two, the middle and the last
LoopIndices(n) == {i \in {0, 1, n \div 2, n - 1} : i >= 0 /\ i < n}

\* the amplitude extraction of column x, row y: const brightness = data[pixelIndex]
ReadPixel ==
  /\ subs.status \in {"returned", "read"}
  /\ \E x \in LoopIndices(subs.effectiveWidth), y \in LoopIndices(subs.effectiveHeight) :
       LET srcX == x * subs.stepX
           srcY == y * subs.stepY
       IN  subs' = [subs EXCEPT !.status = "read", !.x = x, !.y = y,
                                !.srcX = srcX, !.srcY = srcY,
                                !.pixelIndex = srcY * subs.width + srcX]
  /\ UNCHANGED <<systemVars, paramVars, wav, norm, freq, rng, syn>>

SpecSubs == InitSubs /\ [][Subsample \/ ReadPixel]_vars

\* ------------------------------------------------------------------------
\* workers/audioWorker: the sizes of the buffers of generateAudio
\* ------------------------------------------------------------------------
\* const totalSamples = Math.floor(sampleRate * duration), duration a fraction
TotalSamples(sampleRate, duration) == (sampleRate * duration.num) \div duration.den

\* durations of a request: the ends of the range, the default, and fractions
Durations == {Frac(1, 1), Frac(8, 1), Frac(60, 1), Frac(1, 4), Frac(3, 2)}

\* generate requests: an image size, a sample rate and a duration
SizeInputs ==
  {[status |-> "called", width |-> w, height |-> h, len |-> w * h,
    sampleRate |-> r, duration |-> d, totalSamples |-> 0,
    stepX |-> 0, stepY |-> 0, effectiveWidth |-> 0, effectiveHeight |-> 0,
    outputLength |-> 0] :
      w \in {1, 2000, 2001, 4001, 16000}, h \in {1, 2000, 3999},
      r \in SAMPLE_RATES, d \in Durations}

InitSizes ==
  /\ SystemAtRest
  /\ subs \in SizeInputs
  /\ wav = NoCallOf /\ norm = NoCallOf /\ freq = NoCallOf
  /\ rng = NoCallOf /\ syn = NoCallOf

\* generatePCM up to the column loop: totalSamples, the effective size, and
\* const output = new Float32Array(totalSamples)
SizeStart ==
  /\ subs.status = "called"
  /\ LET st == calculateSubsamplingFactors(subs.width, subs.height)
         totalSamples == TotalSamples(subs.sampleRate, subs.duration)
     IN  subs' = [subs EXCEPT !.status = "running",
                              !.totalSamples = totalSamples,
                              !.stepX = st.stepX, !.stepY = st.stepY,
                              !.effectiveWidth = CeilDiv(subs.width, st.stepX),
                              !.effectiveHeight = CeilDiv(subs.height, st.stepY),
                              !.outputLength = totalSamples]
  /\ UNCHANGED <<systemVars, paramVars, wav, norm, freq, rng, syn>>

\* the column loop writes elements of output and normalizePCM scales them;
\* generatePCM returns output
SizeReturn ==
  /\ subs.status = "running"
  /\ subs' = [subs EXCEPT !.status = "returned"]
  /\ UNCHANGED <<systemVars, paramVars, wav, norm, freq, rng, syn>>

\* encodeWavStereo(audioData, params.sampleRate): the buffer allocated
SizeEncode ==
  /\ subs.status = "returned"
  /\ wav.status = "none"
  /\ wav' = [status |-> "returned", numSamples |-> subs.outputLength,
              sampleRate |-> subs.sampleRate,
              fileSize |-> WavFileSize(subs.outputLength)]
  /\ UNCHANGED <<systemVars, paramVars, subs, norm, freq, rng, syn>>

SpecSizes == InitSizes /\ [][SizeStart \/ SizeReturn \/ SizeEncode]_vars

\* ------------------------------------------------------------------------
\* lib/audio/generateFromImage: the column sample ranges of generatePCM
\* ------------------------------------------------------------------------
\* A number of the column arithmetic is an IEEE 754 double: 53 significant
\* bits, results rounded to nearest, ties to even.  A double >= 1 is kept as
\* its integer part and the bits of its fraction, most significant first.
MantissaBits == 53

\* the number of significant bits of n, 0 <= n < 2^30
BitLength(n) == CHOOSE b \in 0..30 : n < 2^b /\ (b = 0 \/ n >= 2^(b - 1))

\* 2^e modulo w, for e <= 60 and w * w < 2^31
Pow2Mod(e, w) ==
  LET a == IF e > 20 THEN 20 ELSE e
      b == IF e - a > 20 THEN 20 ELSE e - a
      c == e - a - b
  IN  ((((2^a % w) * (2^b % w)) % w) * (2^c % w)) % w

\* the first k bits of the fraction r/w (r < w), and the remainder left:
\* bit i is floor(2^i * r / w) modulo 2
DivBits(r, w, k) ==
  [bits |-> [i \in 1..k |-> (2 * ((r * Pow2Mod(i - 1, w)) % w)) \div w],
   rem |-> (r * Pow2Mod(k, w)) % w]

\* bits + 1 in the last place, and the carry out of the first place
IncBits(bits) ==
  IF \A i \in 1..Len(bits) : bits[i] = 1
  THEN [bits |-> [i \in 1..Len(bits) |-> 0], carry |-> 1]
  ELSE LET k == CHOOSE k \in 1..Len(bits) :
                   bits[k] = 0 /\ \A i \in (k + 1)..Len(bits) : bits[i] = 1
       IN  [bits |-> [i \in 1..Len(bits) |->
                        IF i < k THEN bits[i] ELSE IF i = k THEN 1 ELSE 0],
            carry |-> 0]

\* the double t / w for integers t >= w >= 1
DoubleDiv(t, w) ==
  LET int == t \div w
      f == MantissaBits - BitLength(int)
      d == DivBits(t % w, w, f)
      lsb == IF f > 0 THEN d.bits[f] ELSE int % 2
      up == 2 * d.rem > w \/ (2 * d.rem = w /\ lsb = 1)
      r == IncBits(d.bits)
  IN  IF up THEN [int |-> int + r.carry, frac |-> r.bits]
      ELSE [int |-> int, frac |-> d.bits]

\* the bits of bits * x + carry, and the carry into the integer part
RECURSIVE MulBits(_, _, _)
MulBits(bits, x, carry) ==
  IF carry = 0 /\ \A i \in 1..Len(bits) : bits[i] = 0
  THEN [bits |-> bits, carry |-> 0]
  ELSE IF Len(bits) = 0 THEN [bits |-> <<>>, carry |-> carry]
  ELSE IF Len(bits) = 1
  THEN [bits |-> <<(bits[1] * x + carry) % 2>>, carry |-> (bits[1] * x + carry) \div 2]
  ELSE LET mid == Len(bits) \div 2
           low == MulBits(SubSeq(bits, mid + 1, Len(bits)), x, carry)
           high == MulBits(SubSeq(bits, 1, mid), x, low.carry)
       IN  [bits |-> high.bits \o low.bits, carry |-> high.carry]

\* Math.floor(x * q) for an integer x >= 0 and a double q >= 1: the product
\* is rounded to a double before the floor is taken
FloorTimes(x, q) ==
  IF x = 0 THEN 0
  ELSE LET f == Len(q.frac)
           m == MulBits(q.frac, x, 0)
           j == x * q.int + m.carry
           k == MantissaBits - BitLength(j)
       IN  IF k >= f THEN j
           ELSE LET guard == m.bits[k + 1]
                    sticky == \E i \in (k + 2)..f : m.bits[i] = 1
                    lsb == IF k > 0 THEN m.bits[k] ELSE j % 2
                    up == guard = 1 /\ (sticky \/ lsb = 1)
                IN  IF up /\ \A i \in 1..k : m.bits[i] = 1 THEN j + 1 ELSE j

\* const samplesPerColumn = totalSamples / effectiveWidth
samplesPerColumn(totalSamples, effectiveWidth) == DoubleDiv(totalSamples, effectiveWidth)

\* const startSample = Math.floor(x * samplesPerColumn)
startSample(x, totalSamples, effectiveWidth) ==
  FloorTimes(x, samplesPerColumn(totalSamples, effectiveWidth))

\* const endSample = Math.min(Math.floor((x + 1) * samplesPerColumn), totalSamples)
endSample(x, totalSamples, effectiveWidth) ==
  MathMin(FloorTimes(x + 1, samplesPerColumn(totalSamples, effectiveWidth)), totalSamples)

\* totalSamples of 1 s at 22050 Hz and of the default 8 s at 44100 Hz, and
\* effective widths
RangeInputs ==
  {[status |-> "running", totalSamples |-> t, effectiveWidth |-> w, x |-> 0,
    ranges |-> <<>>] : t \in {22050, 44100 * 8}, w \in {1, 7, 33, 41}}

InitRanges ==
  /\ SystemAtRest
  /\ rng \in RangeInputs
  /\ wav = NoCallOf /\ norm = NoCallOf /\ freq = NoCallOf
  /\ subs = NoCallOf /\ syn = NoCallOf

\* column x of the loop: the samples startSample..endSample-1 are written
ColumnRange ==
  /\ rng.status = "running"
  /\ rng.x < rng.effectiveWidth
  /\ rng' = [rng EXCEPT
               !.x = @ + 1,
               !.ranges = Append(@, [startSample |-> startSample(rng.x, rng.totalSamples,
                                                                  rng.effectiveWidth),
                                     endSample |-> endSample(rng.x, rng.totalSamples,
                                                              rng.effectiveWidth)])]
  /\ UNCHANGED <<systemVars, paramVars, wav, norm, freq, subs, syn>>

\* the loop is over
ColumnsDone ==
  /\ rng.status = "running"
  /\ rng.x = rng.effectiveWidth
  /\ rng' = [rng EXCEPT !.status = "returned"]
  /\ UNCHANGED <<systemVars, paramVars, wav, norm, freq, subs, syn>>

SpecRanges == InitRanges /\ [][ColumnRange \/ ColumnsDone]_vars

\* ------------------------------------------------------------------------
\* lib/audio/generateFromImage: generatePCM, sample by sample
\* ------------------------------------------------------------------------
\* Pixel values and amplitudes are exact fractions.  A phase is a fraction of
\* a turn: phaseIncrements[y] is inc/den of 2*PI and phases[y] counts the same
\* den-ths.  The sines are left symbolic: a sample is the list of the terms
\* amplitude * sin(phase) that were added to it.
MIN_AMPLITUDE_THRESHOLD == Frac(1, 1000)

\* phaseIncrements is a Float32Array: an entry is 2*PI*f/sampleRate rounded,
\* off the exact value by less than one part in PhaseGrain of a sample's
\* share of the turn, and never equal to it
PhaseGrain == 64

FracAdd(a, b) == Reduced(Frac(a.num * b.den + b.num * a.den, a.den * b.den))

\* Math.log(a) / Math.log(10) for the arguments where it is exact
MathLog10(a) ==
  CASE FracEq(a, Frac(1, 1)) -> Frac(0, 1)
    [] FracEq(a, Frac(10, 1)) -> Frac(1, 1)

applyBrightnessCurve(value, curve, invert) ==
  LET v == IF invert THEN FracSub(Frac(1, 1), value) ELSE value
  IN  CASE curve = "linear" -> v
        [] curve = "exponential" -> FracMul(v, v)
        [] curve = "logarithmic" -> MathLog10(FracAdd(Frac(1, 1), FracMul(v, Frac(9, 1))))
        [] OTHER -> v

\* applyTemporalSmoothing keeping the blended value as the next `previous`
applyTemporalSmoothingKeepsBlend(current, previous, factor) ==
  IF ~FracLt(Frac(0, 1), factor) THEN [current |-> current, previous |-> previous]
  ELSE LET blend == IF FracLt(Frac(1, 1), factor) THEN Frac(1, 1) ELSE factor
           smoothed == [i \in 1..Len(current) |->
                          FracAdd(FracMul(current[i], FracSub(Frac(1, 1), blend)),
                                  FracMul(previous[i], blend))]
       IN  [current |-> smoothed, previous |-> smoothed]

\* applyTemporalSmoothing: the two arrays after the call
applyTemporalSmoothing(current, previous, factor) ==
  IF ~FracLt(Frac(0, 1), factor) THEN [current |-> current, previous |-> previous]
  ELSE LET blend == IF FracLt(Frac(1, 1), factor) THEN Frac(1, 1) ELSE factor
       IN  [current |-> [i \in 1..Len(current) |->
                           FracAdd(FracMul(current[i], FracSub(Frac(1, 1), blend)),
                                   FracMul(previous[i], blend))],
            previous |-> current]

\* phaseIncrements[y] for row frequency f, as inc/den of a turn
PhaseIncrement(f, sampleRate, err) ==
  [inc |-> f.num * PhaseGrain + err, den |-> sampleRate * f.den * PhaseGrain]

\* the phase update without the wrap
AdvancePhaseNoWrap(phase, pinc) == phase + pinc.inc

\* phases[y] += phaseIncrements[y]; if (phases[y] > 2 * Math.PI) phases[y] -= 2 * Math.PI
AdvancePhase(phase, pinc) ==
  LET q == phase + pinc.inc
  IN  IF q > pinc.den THEN q - pinc.den ELSE q

\* the row loop advancing the phase of the rows it adds only
RowLoopAudibleOnly(phases, phaseIncrements, amplitudes) ==
  [sampleValue |->
     SelectSeq([y \in 1..Len(phases) |->
                  [row |-> y - 1, amplitude |-> amplitudes[y],
                   phase |-> Frac(phases[y], phaseIncrements[y].den)]],
               LAMBDA t : FracLt(MIN_AMPLITUDE_THRESHOLD, t.amplitude)),
   phases |-> [y \in 1..Len(phases) |->
                 IF FracLt(MIN_AMPLITUDE_THRESHOLD, amplitudes[y])
                 THEN AdvancePhase(phases[y], phaseIncrements[y]) ELSE phases[y]]]

\* the inner row loop of one sample: the terms added to sampleValue, and the
\* phases after it
RowLoop(phases, phaseIncrements, amplitudes) ==
  [sampleValue |->
     SelectSeq([y \in 1..Len(phases) |->
                  [row |-> y - 1, amplitude |-> amplitudes[y],
                   phase |-> Frac(phases[y], phaseIncrements[y].den)]],
               LAMBDA t : FracLt(MIN_AMPLITUDE_THRESHOLD, t.amplitude)),
   phases |-> [y \in 1..Len(phases) |-> AdvancePhase(phases[y], phaseIncrements[y])]]

\* generatePCM with the phases array kept from the previous call
SynStartPhasesKept(input, cfg, err, nth) ==
  IF Len(input.data) # input.width * input.height
  THEN [status |-> "thrown", error |-> "Data size mismatch", input |-> input,
        cfg |-> cfg, err |-> err, calls |-> nth]
  ELSE IF input.width <= 0 \/ input.height <= 0
  THEN [status |-> "thrown", error |-> "Image dimensions must be positive",
        input |-> input, cfg |-> cfg, err |-> err, calls |-> nth]
  ELSE LET totalSamples == cfg.sampleRate * cfg.duration
           st == calculateSubsamplingFactors(input.width, input.height)
           effectiveWidth == CeilDiv(input.width, st.stepX)
           effectiveHeight == CeilDiv(input.height, st.stepY)
           rowFrequencies == computeRowFrequencies(effectiveHeight, cfg.minFreq,
                                                   cfg.maxFreq, cfg.frequencyScale)
       IN  [status |-> "running", pc |-> "column", input |-> input, cfg |-> cfg,
            err |-> err, calls |-> nth,
            totalSamples |-> totalSamples, stepX |-> st.stepX, stepY |-> st.stepY,
            effectiveWidth |-> effectiveWidth, effectiveHeight |-> effectiveHeight,
            phaseIncrements |-> [y \in 1..effectiveHeight |->
                                   PhaseIncrement(rowFrequencies[y], cfg.sampleRate, err)],
            phases |-> IF syn.status = "returned" /\ Len(syn.phases) = effectiveHeight
                       THEN syn.phases ELSE [y \in 1..effectiveHeight |-> 0],
            output |-> [i \in 1..totalSamples |-> <<>>], normalized |-> FALSE,
            currentAmplitudes |-> [y \in 1..effectiveHeight |-> Frac(0, 1)],
            previousAmplitudes |-> [y \in 1..effectiveHeight |-> Frac(0, 1)],
            x |-> 0, s |-> 0, endSample |-> 0, progress |-> <<>>]

\* generatePCM up to the column loop (the nth call made)
SynStart(input, cfg, err, nth) ==
  IF Len(input.data) # input.width * input.height
  THEN [status |-> "thrown", error |-> "Data size mismatch", input |-> input,
        cfg |-> cfg, err |-> err, calls |-> nth]
  ELSE IF input.width <= 0 \/ input.height <= 0
  THEN [status |-> "thrown", error |-> "Image dimensions must be positive",
        input |-> input, cfg |-> cfg, err |-> err, calls |-> nth]
  ELSE LET totalSamples == cfg.sampleRate * cfg.duration
           st == calculateSubsamplingFactors(input.width, input.height)
           effectiveWidth == CeilDiv(input.width, st.stepX)
           effectiveHeight == CeilDiv(input.height, st.stepY)
           rowFrequencies == computeRowFrequencies(effectiveHeight, cfg.minFreq,
                                                   cfg.maxFreq, cfg.frequencyScale)
       IN  [status |-> "running", pc |-> "column", input |-> input, cfg |-> cfg,
            err |-> err, calls |-> nth,
            totalSamples |-> totalSamples, stepX |-> st.stepX, stepY |-> st.stepY,
            effectiveWidth |-> effectiveWidth, effectiveHeight |-> effectiveHeight,
            phaseIncrements |-> [y \in 1..effectiveHeight |->
                                   PhaseIncrement(rowFrequencies[y], cfg.sampleRate, err)],
            phases |-> [y \in 1..effectiveHeight |-> 0],
            output |-> [i \in 1..totalSamples |-> <<>>], normalized |-> FALSE,
            currentAmplitudes |-> [y \in 1..effectiveHeight |-> Frac(0, 1)],
            previousAmplitudes |-> [y \in 1..effectiveHeight |-> Frac(0, 1)],
            x |-> 0, s |-> 0, endSample |-> 0, progress |-> <<>>]

\* the curve-mapped amplitudes of column x, before smoothing
ExtractAmplitudes(e, x) ==
  [i \in 1..e.effectiveHeight |->
     LET y == i - 1
         srcX == x * e.stepX
         srcY == y * e.stepY
         pixelIndex == srcY * e.input.width + srcX
         brightness == Reduced(Frac(e.input.data[pixelIndex + 1], SampleOne))
     IN  applyBrightnessCurve(brightness, e.cfg.brightnessCurve, e.cfg.invertImage)]

\* a column of the loop up to its sample loop: progress, amplitudes,
\* smoothing, sample range
SynColumnStep(e) ==
  LET x == e.x
      progress == IF x % PROGRESS_INTERVAL = 0
                  THEN Append(e.progress, Frac(x * 100, e.effectiveWidth))
                  ELSE e.progress
      extracted == ExtractAmplitudes(e, x)
      sm == IF x > 0 /\ FracLt(Frac(0, 1), e.cfg.smoothing)
            THEN applyTemporalSmoothing(extracted, e.previousAmplitudes, e.cfg.smoothing)
            ELSE [current |-> extracted, previous |-> extracted]
      start == startSample(x, e.totalSamples, e.effectiveWidth)
      end == endSample(x, e.totalSamples, e.effectiveWidth)
  IN  [e EXCEPT !.progress = progress,
                !.currentAmplitudes = sm.current,
                !.previousAmplitudes = sm.previous,
                !.s = start, !.endSample = end,
                !.pc = IF start < end THEN "samples" ELSE "column",
                !.x = IF start < end THEN x ELSE x + 1]

\* one iteration of the sample loop of the column
SynSampleStep(e) ==
  LET r == RowLoop(e.phases, e.phaseIncrements, e.currentAmplitudes)
      last == e.s + 1 >= e.endSample
  IN  [e EXCEPT !.output[e.s + 1] = r.sampleValue,
                !.phases = r.phases,
                !.s = e.s + 1,
                !.pc = IF last THEN "column" ELSE "samples",
                !.x = IF last THEN e.x + 1 ELSE e.x]

\* after the loop: normalizePCM(output), onProgress(100), return output
SynFinish(e) ==
  [e EXCEPT !.status = "returned", !.normalized = TRUE,
            !.progress = Append(@, Frac(100, 1))]

\* images of up to MaxCols by MaxRows pixels, data in thousandths: uniform,
\* one bright column, top row bright, a ramp
SynImage(w, h, pixel(_, _)) ==
  [width |-> w, height |-> h,
   data |-> [i \in 1..(w * h) |-> pixel((i - 1) % w, (i - 1) \div w)]]

SynImages ==
  UNION {
    {SynImage(w, h, LAMBDA x, y : 0), SynImage(w, h, LAMBDA x, y : 1000),
     SynImage(w, h, LAMBDA x, y : IF y = 0 THEN 1000 ELSE 0),
     SynImage(w, h, LAMBDA x, y : ((x + 2 * y) % 3) * 500)}
    \cup {SynImage(w, h, LAMBDA x, y : IF x = k THEN 1000 ELSE 0) : k \in 0..(w - 1)}
    : w \in 1..MaxCols, h \in 1..MaxRows}

SynInvalidImages ==
  {[width |-> 2, height |-> 1, data |-> <<0, 0, 0>>],
   [width |-> 0, height |-> 0, data |-> <<>>]}

\* configurations of a call: 8 samples in all; row frequencies below the
\* sample rate (1..4 Hz) and above it (3..12 Hz)
SynConfigs ==
  {[duration |-> 1, sampleRate |-> 8, minFreq |-> r[1], maxFreq |-> r[2],
    frequencyScale |-> scale, brightnessCurve |-> curve, invertImage |-> invert,
    smoothing |-> smoothing] :
      r \in {<<1, 4>>, <<3, 12>>}, scale \in {"logarithmic", "linear"},
      curve \in {"linear", "exponential", "logarithmic"}, invert \in BOOLEAN,
      smoothing \in {Frac(0, 1), Frac(1, 2), Frac(1, 1)}}

\* the curve has an exact value on the pixels of the image
ExactCurve(input, cfg) ==
  cfg.brightnessCurve = "logarithmic" => \A i \in 1..Len(input.data) : input.data[i] \in {0, 1000}

SynCalls == IF syn.status = "none" THEN 0 ELSE syn.calls

InitSynth ==
  /\ SystemAtRest
  /\ PureAtRest

\* the calls of generatePCM: an image, a configuration, and the sign of the
\* rounding error of the phase increments
SynJobs ==
  {[input |-> input, cfg |-> cfg, err |-> err] :
     input \in SynImages \cup SynInvalidImages, cfg \in SynConfigs, err \in {-1, 1}}

\* the calls made before the last one: bright images of each height, and an
\* image the call rejects
SynEarlierJobs ==
  {j \in SynJobs :
     /\ j.input.width \in {0, 2, MaxCols}
     /\ \A i \in 1..Len(j.input.data) : j.input.data[i] \in {0, 1000}
     /\ Len(j.input.data) > 0 => j.input.data[1] = 1000 /\ j.input.data[Len(j.input.data)] = 1000
     /\ j.cfg.minFreq = 1 /\ j.cfg.frequencyScale = "linear"
     /\ j.cfg.brightnessCurve = "linear" /\ ~j.cfg.invertImage
     /\ j.cfg.smoothing = Frac(1, 2) /\ j.err = 1}

\* generatePCM(input, config) is called, no isCancelled callback given
SynCall ==
  /\ syn.status \in {"none", "returned", "thrown"}
  /\ SynCalls < MaxSynCalls
  /\ \E job \in (IF SynCalls + 1 < MaxSynCalls THEN SynEarlierJobs ELSE SynJobs) :
        /\ ExactCurve(job.input, job.cfg)
        /\ syn' = SynStart(job.input, job.cfg, job.err, SynCalls + 1)
  /\ UNCHANGED <<systemVars, paramVars, wav, norm, freq, subs, rng>>

SynColumn ==
  /\ syn.status = "running" /\ syn.pc = "column"
  /\ syn.x < syn.effectiveWidth
  /\ syn' = SynColumnStep(syn)
  /\ UNCHANGED <<systemVars, paramVars, wav, norm, freq, subs, rng>>

SynSample ==
  /\ syn.status = "running" /\ syn.pc = "samples"
  /\ syn' = SynSampleStep(syn)
  /\ UNCHANGED <<systemVars, paramVars, wav, norm, freq, subs, rng>>

SynReturn ==
  /\ syn.status = "running" /\ syn.pc = "column"
  /\ syn.x = syn.effectiveWidth
  /\ syn' = SynFinish(syn)
  /\ UNCHANGED <<systemVars, paramVars, wav, norm, freq, subs, rng>>

NextSynth == SynCall \/ SynColumn \/ SynSample \/ SynReturn

SpecSynth == InitSynth /\ [][NextSynth]_vars

\* ------------------------------------------------------------------------
\* Observations on the channels
\* ------------------------------------------------------------------------
\* the responses posted for job j, in order
MsgsOf(j) == SelectSeq(posted, LAMBDA m : m.jobId = j)

Terminal(m) == m.type \in {"result", "error"}

NumTerminal(j) == Cardinality({i \in 1..Len(posted) : posted[i].jobId = j /\ Terminal(posted[i])})

HasResult(j) == \E i \in 1..Len(posted) : posted[i].jobId = j /\ posted[i].type = "result"

HasError(j) == \E i \in 1..Len(posted) : posted[i].jobId = j /\ posted[i].type = "error"

\* the generate request of job j has been taken by the worker
Taken(j) == \E i \in 1..taken : requests[i].type = "generate" /\ requests[i].jobId = j

\* the worker has finished handling the generate request of job j
Handled(j) == Taken(j) /\ ~(wpc # "idle" /\ wreq.jobId = j)

RequestOf(j) ==
  requests[CHOOSE i \in 1..Len(requests) :
             requests[i].type = "generate" /\ requests[i].jobId = j]

ValidInput(input) ==
  input.len = input.width * input.height /\ input.width > 0 /\ input.height > 0

IsPrefix(a, b) == Len(a) <= Len(b) /\ a = SubSeq(b, 1, Len(a))

\* the message handleMessage is about to handle
NextMsg == posted[delivered + 1]

\* this step is handleMessage handling NextMsg
Delivering == delivered' = delivered + 1

\* ------------------------------------------------------------------------
\* C1
\* ------------------------------------------------------------------------
\* C1: in useAudioWorker a progress, result or error message tagged with a job
\* id other than the id of the most recent generateAudio call leaves the hook
\* state (progress, result, error, isBusy) unchanged, and a stored result is
\* always the result of the most recent job.
C1_StaleMessagesDropped ==
  [][ /\ (/\ Delivering
          /\ NextMsg.type \in {"progress", "result", "error"}
          /\ NextMsg.jobId # Null
          /\ NextMsg.jobId # nextJobId - 1) => state' = state
      /\ state'.result # NullBuf => state'.result.src = nextJobId' - 1 ]_vars

\* a result of job 1 was posted after a message about job 2, has been
\* delivered, and the hook still waits for job 2
C1_Witness ==
  \E i \in 2..delivered :
     /\ posted[i - 1].jobId = 2
     /\ posted[i].jobId = 1 /\ posted[i].type = "result"
     /\ state.isBusy /\ state.result = NullBuf /\ state.currentJobId = 2

\* ------------------------------------------------------------------------
\* C2
\* ------------------------------------------------------------------------
\* C2: a job whose cancellation was requested while it was being synthesized,
\* before its last column, never gets a result message, and once the worker is
\* done with it the error CANCELLED has been posted for it.
C2_CancelMidJobCancels ==
  \A j \in midCancel :
     /\ ~HasResult(j)
     /\ Handled(j) => \E i \in 1..Len(posted) :
                         posted[i].jobId = j /\ posted[i].code = "CANCELLED"

\* ------------------------------------------------------------------------
\* C3
\* ------------------------------------------------------------------------
\* C3: for every generate request the worker has handled it has posted exactly
\* one terminal message (result or error) with that job id, no terminal
\* message is posted while the request is being handled, and a terminal
\* message is the last message of its job.
C3_OneTerminalLast ==
  \A j \in IssuedJobs :
     LET ms == MsgsOf(j)
     IN  /\ NumTerminal(j) <= 1
         /\ Handled(j) => NumTerminal(j) = 1
         /\ ~Handled(j) => NumTerminal(j) = 0
         /\ NumTerminal(j) = 1 => Terminal(ms[Len(ms)])

\* one job ended with a result after its progress messages, another with an error
C3_Witness ==
  /\ \E j \in IssuedJobs : Handled(j) /\ HasResult(j) /\ Len(MsgsOf(j)) > 3
  /\ \E j \in IssuedJobs : Handled(j) /\ HasError(j)

\* ------------------------------------------------------------------------
\* C4
\* ------------------------------------------------------------------------
\* C4: the progress values posted for a job are integers in 0..100 and never
\* decrease along the messages of that job.
C4_ProgressMonotone ==
  \A j \in IssuedJobs :
     LET ps == SelectSeq(MsgsOf(j), LAMBDA m : m.type = "progress")
     IN  /\ \A i \in 1..Len(ps) : ps[i].progress \in 0..100
         /\ \A i \in 1..(Len(ps) - 1) : ps[i].progress <= ps[i + 1].progress

\* a job has posted its whole progress sequence, with a value from inside the
\* column loop strictly between 0 and 90
C4_Witness ==
  \E j \in IssuedJobs :
     LET ps == SelectSeq(MsgsOf(j), LAMBDA m : m.type = "progress")
     IN  /\ Len(ps) >= 5
         /\ ps[Len(ps)].progress = 100
         /\ \E i \in 1..Len(ps) : ps[i].progress > 0 /\ ps[i].progress < 90

\* ------------------------------------------------------------------------
\* C5
\* ------------------------------------------------------------------------
\* the jobs the worker has started and not yet answered with a result or error
RunningJobs == {j \in IssuedJobs : Taken(j) /\ NumTerminal(j) = 0}

\* C5: at most one job is running in the worker; currentJobId is that job
\* while its generate request is being handled and null otherwise.
C5_OneRunningJob ==
  /\ Cardinality(RunningJobs) <= 1
  /\ RunningJobs = {currentJobId} \ {Null}
  /\ (currentJobId = Null) <=> (wpc = "idle")
  /\ currentJobId # Null => currentJobId = wreq.jobId

\* job 2 is running after job 1 has been answered
C5_Witness ==
  /\ currentJobId = 2
  /\ NumTerminal(1) = 1

\* ------------------------------------------------------------------------
\* C6
\* ------------------------------------------------------------------------
\* C6: a handled generate request whose data length differs from width*height
\* or whose width or height is not positive has no result and no progress
\* message, and has an error message with code INVALID_INPUT.
C6_InvalidInputCode ==
  \A j \in IssuedJobs :
     (Handled(j) /\ ~ValidInput(RequestOf(j).input)) =>
        /\ ~HasResult(j)
        /\ Len(MsgsOf(j)) = 1
        /\ MsgsOf(j)[1].type = "error"
        /\ MsgsOf(j)[1].code = "INVALID_INPUT"

\* ------------------------------------------------------------------------
\* C7
\* ------------------------------------------------------------------------
\* generatePCM run to its end without cancellation
RECURSIVE RunColumns(_)
RunColumns(e) == IF e.x >= e.W THEN e ELSE RunColumns(PCMColumn(e, FALSE))

\* the messages a worker that has handled nothing before posts for request m
FreshMessages(m) ==
  LET e0 == PCMStart(m.input)
  IN  IF e0.status = "thrown"
      THEN <<CatchError(e0.error, m.jobId)>>
      ELSE LET e == PCMFinish(RunColumns(e0))
           IN  ProgressFrom(m.jobId, e.progress, 0)
                 \o <<reportProgress(m.jobId, Frac(95, 1))>>
                 \o EncodeMessages(m.jobId, e)

\* C7: whatever was handled before (a job that failed included), the messages
\* and the result a generate request gets are those a freshly started worker
\* posts for it, and the request starts with the cancellation flag cleared.
C7_LaterJobAsFresh ==
  /\ \A j \in IssuedJobs :
        /\ Taken(j) => IsPrefix(MsgsOf(j), FreshMessages(RequestOf(j)))
        /\ Handled(j) => MsgsOf(j) = FreshMessages(RequestOf(j))
  /\ (wpc = "columns" /\ pcm.x = 0) => ~isCancelled

\* job 2 has been handled to its result after job 1 ended in an error
C7_Witness ==
  /\ Handled(1) /\ HasError(1)
  /\ Handled(2) /\ HasResult(2) /\ Len(MsgsOf(2)) > 4

\* ------------------------------------------------------------------------
\* C8
\* ------------------------------------------------------------------------
\* the progress values generatePCM has handed to onProgress before column k
RECURSIVE ColumnProgress(_, _)
ColumnProgress(k, W) ==
  IF k = 0 THEN <<>>
  ELSE IF (k - 1) % PROGRESS_INTERVAL = 0
       THEN Append(ColumnProgress(k - 1, W), Frac((k - 1) * 100, W))
       ELSE ColumnProgress(k - 1, W)

\* C8: generatePCM polls isCancelled once per column, first thing in the
\* column. When the poll answers true at column k the call throws CANCELLED:
\* columns 0..k-1 only have been synthesized, no progress value was reported
\* for column k and the final 100 was not reported; a call that returns has
\* polled once for each of its columns.
C8_PollOncePerColumn ==
  /\ pcm.status = "running" =>
        /\ pcm.polls = pcm.x
        /\ pcm.progress = ColumnProgress(pcm.x, pcm.W)
  /\ (pcm.status = "thrown" /\ pcm.error = "CANCELLED") =>
        /\ pcm.polls = pcm.x + 1
        /\ pcm.written = 0..(pcm.x - 1)
        /\ pcm.progress = ColumnProgress(pcm.x, pcm.W)
  /\ pcm.status = "returned" =>
        /\ pcm.polls = pcm.W
        /\ pcm.written = 0..(pcm.W - 1)
        /\ pcm.progress = Append(ColumnProgress(pcm.W, pcm.W), Frac(100, 1))

\* the poll answered true at column 10 of 11, a column that reports progress
C8_Witness ==
  /\ pcm.status = "thrown" /\ pcm.error = "CANCELLED"
  /\ pcm.W = MaxWidth /\ pcm.x = PROGRESS_INTERVAL

\* ------------------------------------------------------------------------
\* C9
\* ------------------------------------------------------------------------
\* C9: when handleMessage handles an error with code CANCELLED for the current
\* job, the status exposed afterwards is not 'error' and the exposed state
\* differs from the one the same message with GENERATION_FAILED leaves.
C9_CancelledNotError ==
  [][ (/\ Delivering
       /\ NextMsg.type = "error"
       /\ NextMsg.code = "CANCELLED"
       /\ NextMsg.jobId = currentJobIdRef)
      => /\ computeStatus(localState', state') # "error"
         /\ state' # handleMessage(state, currentJobIdRef,
                                   [NextMsg EXCEPT !.code = "GENERATION_FAILED"]) ]_vars

\* ------------------------------------------------------------------------
\* C10
\* ------------------------------------------------------------------------
ValidParams(p) ==
  /\ p.duration # NaN /\ p.duration >= 1 /\ p.duration <= 60
  /\ p.minFreq # NaN /\ p.minFreq >= 20 /\ p.minFreq <= 2000
  /\ p.maxFreq # NaN /\ p.maxFreq >= 500 /\ p.maxFreq <= 22000
  /\ p.smoothing # NaN /\ p.smoothing >= 0 /\ p.smoothing <= 100
  /\ p.minFreq < p.maxFreq
  /\ p.sampleRate \in {22050, 44100, 48000}
  /\ p.frequencyScale \in {"linear", "logarithmic"}
  /\ p.brightnessCurve \in {"linear", "exponential", "logarithmic"}

\* C10: whatever the input, the params sanitizeConversionParams returns are
\* within every range, have minFreq < maxFreq, and pass
\* validateConversionParams without an error.
C10_SanitizedValid ==
  \A p \in pOut : ValidParams(p) /\ validateConversionParams(p) = {}

\* ------------------------------------------------------------------------
\* C11
\* ------------------------------------------------------------------------
\* C11: for a mono input of n samples and a sample rate r, encodeWavStereo
\* returns exactly 44 + 4n bytes whose header reads back as SampleRate = r,
\* NumChannels = 2, BitsPerSample = 16, Subchunk2Size = 4n, ChunkSize = 36 + 4n,
\* ByteRate = 4r and BlockAlign = 4.
C11_WavHeaderRoundTrip ==
  wav.status = "returned" =>
     LET n == Len(wav.monoData)
         r == wav.sampleRate
     IN  /\ Len(wav.file) = 44 + 4 * n
         /\ getUint32(wav.file, 24) = r
         /\ getUint16(wav.file, 22) = 2
         /\ getUint16(wav.file, 34) = 16
         /\ getUint32(wav.file, 40) = 4 * n
         /\ getUint32(wav.file, 4) = 36 + 4 * n
         /\ getUint32(wav.file, 28) = 4 * r
         /\ getUint16(wav.file, 32) = 4

\* a file of two samples at 48000 Hz has been encoded
C11_Witness ==
  /\ wav.status = "returned"
  /\ Len(wav.monoData) = 2 /\ wav.sampleRate = 48000
  /\ Len(wav.file) = 52

\* ------------------------------------------------------------------------
\* C12
\* ------------------------------------------------------------------------
\* C12: for every input sample s the frame of the file holds the same int16
\* value in the left and in the right channel, left first; for a number s
\* that value is clamp(s, -1, 1) scaled by 32768 when negative and by 32767
\* otherwise (its integer part), it lies in [-32768, 32767], and samples
\* outside [-1, 1] do not wrap around.
C12_FramesClampedInt16 ==
  wav.status = "returned" =>
     \A i \in 1..Len(wav.monoData) :
        LET s == wav.monoData[i]
            left == getInt16(wav.file, 44 + 4 * (i - 1))
            right == getInt16(wav.file, 44 + 4 * (i - 1) + 2)
            c == IF s > SampleOne THEN SampleOne
                 ELSE IF s < -SampleOne THEN -SampleOne ELSE s
        IN  /\ left = right
            /\ left \in -32768..32767
            /\ s # NaN => left = Trunc(IF c < 0 THEN c * 32768 ELSE c * 32767, SampleOne)
            /\ (s # NaN /\ s >= SampleOne) => left = 32767
            /\ (s # NaN /\ s <= -SampleOne) => left = -32768

\* a file with a sample above 1 and a negative sample whose scaled value is
\* not an integer has been encoded
C12_Witness ==
  /\ wav.status = "returned"
  /\ wav.monoData = <<1500, -300>>
  /\ getInt16(wav.file, 44) = 32767 /\ getInt16(wav.file, 48) = -9830

\* ------------------------------------------------------------------------
\* C14
\* ------------------------------------------------------------------------
\* the largest absolute value of a buffer, 0 for the empty buffer
PeakOf(buffer) ==
  IF Len(buffer) = 0 THEN Frac(0, 1)
  ELSE LET k == CHOOSE k \in 1..Len(buffer) :
                   \A i \in 1..Len(buffer) : ~FracLt(MathAbs(buffer[k]), MathAbs(buffer[i]))
       IN  MathAbs(buffer[k])

C15_RowFrequenciesDescend ==
  (freq.status = "returned" /\ freq.height > 1 /\ freq.minFreq < freq.maxFreq) =>
     LET f == freq.frequencies
     IN  /\ Len(f) = freq.height
         /\ \A i \in 1..(Len(f) - 1) : ~FracLt(f[i], f[i + 1])
         /\ FracEq(f[1], Frac(freq.maxFreq, 1))
         /\ FracEq(f[Len(f)], Frac(freq.minFreq, 1))

\* four rows under the logarithmic scale: 1350, 450, 150, 50 Hz
C15_Witness ==
  /\ freq.status = "returned"
  /\ freq.scale = "logarithmic" /\ freq.height = 4
  /\ freq.minFreq = 50 /\ freq.maxFreq = 1350
  /\ freq.frequencies = <<Frac(1350, 1), Frac(450, 1), Frac(150, 1), Frac(50, 1)>>

\* ------------------------------------------------------------------------
\* C20
\* ------------------------------------------------------------------------
\* C20: the subsampling steps are stepX = stepY = 1 when width*height is at
\* most 4,000,000 and the least s with s*s*4,000,000 >= width*height otherwise,
\* and the effective image of ceil(width/stepX) by ceil(height/stepY) pixels
\* has at most 4,000,000 pixels.
C20_EffectiveWithinTarget ==
  subs.status = "returned" =>
     /\ subs.stepX = subs.stepY
     /\ subs.width * subs.height <= 4000000 => subs.stepX = 1
     /\ subs.width * subs.height > 4000000 =>
          /\ subs.stepX * subs.stepX * 4000000 >= subs.width * subs.height
          /\ (subs.stepX - 1) * (subs.stepX - 1) * 4000000 < subs.width * subs.height
     /\ subs.effectiveWidth * subs.stepX >= subs.width
     /\ (subs.effectiveWidth - 1) * subs.stepX < subs.width
     /\ subs.effectiveHeight * subs.stepY >= subs.height
     /\ (subs.effectiveHeight - 1) * subs.stepY < subs.height
     /\ subs.effectiveWidth * subs.effectiveHeight <= 4000000

\* the steps and the effective size are as the claim computes them
C20_StepsAsStated ==
  subs.status = "returned" =>
     /\ subs.stepX = subs.stepY
     /\ subs.width * subs.height <= 4000000 => subs.stepX = 1
     /\ subs.width * subs.height > 4000000 =>
          /\ subs.stepX * subs.stepX * 4000000 >= subs.width * subs.height
          /\ (subs.stepX - 1) * (subs.stepX - 1) * 4000000 < subs.width * subs.height

\* ------------------------------------------------------------------------
\* C16
\* ------------------------------------------------------------------------
\* the number of samples written by the columns processed so far
RECURSIVE SamplesWritten(_, _)
SamplesWritten(ranges, n) ==
  IF n = 0 THEN 0
  ELSE SamplesWritten(ranges, n - 1) + (ranges[n].endSample - ranges[n].startSample)

\* C16: column x writes the samples floor(x*T/W) .. floor((x+1)*T/W) - 1
\* (T = totalSamples, W = effectiveWidth); the ranges of successive columns
\* are contiguous and disjoint, start at 0, and when the loop is over they
\* cover [0, T): the counts sum to T.
C16_ColumnRangesCover ==
  LET T == rng.totalSamples
      W == rng.effectiveWidth
      r == rng.ranges
  IN  rng.status \in {"running", "returned"} =>
         /\ \A i \in 1..Len(r) :
               /\ r[i].startSample = ((i - 1) * T) \div W
               /\ r[i].endSample = (i * T) \div W
               /\ r[i].startSample <= r[i].endSample
         /\ \A i \in 1..(Len(r) - 1) : r[i].endSample = r[i + 1].startSample
         /\ Len(r) > 0 => r[1].startSample = 0
         /\ rng.status = "returned" =>
               /\ Len(r) = W
               /\ r[W].endSample = T
               /\ SamplesWritten(r, W) = T

\* what holds of the ranges: successive columns are contiguous and disjoint,
\* start at 0 and stay within the buffer
C16_RangesContiguous ==
  LET r == rng.ranges
  IN  rng.status \in {"running", "returned"} =>
         /\ \A i \in 1..Len(r) :
               r[i].startSample <= r[i].endSample /\ r[i].endSample <= rng.totalSamples
         /\ \A i \in 1..(Len(r) - 1) : r[i].endSample = r[i + 1].startSample
         /\ Len(r) > 0 => r[1].startSample = 0

\* ------------------------------------------------------------------------
\* C13
\* ------------------------------------------------------------------------
\* generatePCM run from e to its end
RECURSIVE RunSyn(_)
RunSyn(e) ==
  IF e.status # "running" THEN e
  ELSE IF e.pc = "samples" THEN RunSyn(SynSampleStep(e))
  ELSE IF e.x < e.effectiveWidth THEN RunSyn(SynColumnStep(e))
  ELSE SynFinish(e)

\* C13: whatever calls were made before, a call of generatePCM that returns
\* has produced the output buffer and the progress sequence that a first call
\* with the same image data, width, height and configuration produces.
C13_Deterministic ==
  syn.status = "returned" =>
     LET first == RunSyn(SynStart(syn.input, syn.cfg, syn.err, 1))
     IN  /\ first.status = "returned"
         /\ syn.output = first.output
         /\ syn.normalized = first.normalized
         /\ syn.progress = first.progress

\* a second call has returned a buffer with audible samples
C13_Witness ==
  /\ syn.status = "returned" /\ syn.calls = 2
  /\ syn.effectiveWidth = MaxCols /\ syn.effectiveHeight = MaxRows
  /\ \A i \in 1..Len(syn.output) : syn.output[i] # <<>>

\* ------------------------------------------------------------------------
\* C17
\* ------------------------------------------------------------------------
\* C17: the amplitudes used to synthesize column 0 are its raw curve-mapped
\* amplitudes; those of a column x > 0 are raw[x]*(1-f) + raw[x-1]*f for the
\* smoothing factor f, and `previous` then holds raw[x]; so with f = 0 every
\* column uses its raw amplitudes and with f = 1 column x uses raw[x-1].
C17_SmoothingOneColumnBack ==
  (syn.status = "running" /\ syn.pc = "samples") =>
     LET x == syn.x
         f == syn.cfg.smoothing
         raw == ExtractAmplitudes(syn, x)
         before == ExtractAmplitudes(syn, x - 1)
         used == syn.currentAmplitudes
     IN  /\ syn.previousAmplitudes = raw
         /\ x = 0 => used = raw
         /\ x > 0 => \A i \in 1..Len(used) :
                        FracEq(used[i],
                               FracAdd(FracMul(raw[i], FracSub(Frac(1, 1), f)),
                                       FracMul(before[i], f)))
         /\ f = Frac(0, 1) => used = raw
         /\ (f = Frac(1, 1) /\ x > 0) => used = before

\* column 2 of an image whose column 0 only is bright is being synthesized
\* with f = 1/2: its amplitudes are 0, nothing of column 0 is left
C17_Witness ==
  /\ syn.status = "running" /\ syn.pc = "samples" /\ syn.x = 2
  /\ syn.cfg.smoothing = Frac(1, 2)
  /\ syn.cfg.brightnessCurve = "linear" /\ ~syn.cfg.invertImage
  /\ syn.input.width = 3 /\ syn.input.height = 1 /\ syn.input.data = <<1000, 0, 0>>
  /\ syn.currentAmplitudes = <<Frac(0, 1)>>

\* ------------------------------------------------------------------------
\* C18
\* ------------------------------------------------------------------------
\* C18: at every point of generatePCM, each oscillator phase whose increment
\* lies in (0, 2*PI) lies in [0, 2*PI).
C18_PhaseWrapped ==
  syn.status \in {"running", "returned"} =>
     \A y \in 1..Len(syn.phases) :
        (syn.phaseIncrements[y].inc > 0
           /\ syn.phaseIncrements[y].inc < syn.phaseIncrements[y].den)
        => (syn.phases[y] >= 0 /\ syn.phases[y] < syn.phaseIncrements[y].den)

\* a phase has just been wrapped: after at least two samples it is below its
\* increment
C18_Witness ==
  /\ syn.status = "running" /\ syn.s >= 2
  /\ \E y \in 1..Len(syn.phases) :
        /\ syn.phaseIncrements[y].inc > 0
        /\ syn.phaseIncrements[y].inc < syn.phaseIncrements[y].den
        /\ syn.phases[y] < syn.phaseIncrements[y].inc

\* ------------------------------------------------------------------------
\* C19
\* ------------------------------------------------------------------------
\* the phase of an oscillator after n samples
RECURSIVE PhaseAfter(_, _)
PhaseAfter(n, pinc) ==
  IF n = 0 THEN 0
  ELSE LET q == PhaseAfter(n - 1, pinc) + pinc.inc
       IN  IF q > pinc.den THEN q - pinc.den ELSE q

\* C19: every sample step advances the phase of every row by its increment,
\* the rows left out of the sum included: after n samples the phase of row y
\* is a function of n and phaseIncrements[y] alone.
C19_PhaseAdvancesAllRows ==
  syn.status \in {"running", "returned"} =>
     \A y \in 1..Len(syn.phases) :
        syn.phases[y] = PhaseAfter(syn.s, syn.phaseIncrements[y])

\* after two samples of a column whose top row is bright and whose bottom
\* row is dark, the phase of the dark row has moved
C19_Witness ==
  /\ syn.status = "running" /\ syn.s >= 2
  /\ syn.effectiveHeight = 2
  /\ FracLt(MIN_AMPLITUDE_THRESHOLD, syn.currentAmplitudes[1])
  /\ ~FracLt(MIN_AMPLITUDE_THRESHOLD, syn.currentAmplitudes[2])
  /\ syn.output[1] # <<>>
  /\ syn.phases[2] # 0

\* ------------------------------------------------------------------------
\* C21
\* ------------------------------------------------------------------------
\* C21: for an accepted input, every read of the amplitude extraction has
\* x*stepX < width and y*stepY < height, its pixel index lies in
\* [0, data.length), and the read leaves the input as it was.
C21_ReadsInBounds ==
  [][ subs'.status = "read" =>
        /\ subs'.x < subs'.effectiveWidth /\ subs'.y < subs'.effectiveHeight
        /\ subs'.srcX = subs'.x * subs'.stepX /\ subs'.srcX < subs'.width
        /\ subs'.srcY = subs'.y * subs'.stepY /\ subs'.srcY < subs'.height
        /\ subs'.pixelIndex >= 0 /\ subs'.pixelIndex < subs'.len
        /\ subs'.width = subs.width /\ subs'.height = subs.height
        /\ subs'.len = subs.len /\ subs.len = subs.width * subs.height ]_vars

\* the last pixel of the last row read of an image subsampled with step 2,
\* whose width is a multiple of the step
C21_Witness ==
  /\ subs.status = "read"
  /\ subs.width = 8000 /\ subs.height = 2000 /\ subs.stepX = 2
  /\ subs.x = subs.effectiveWidth - 1 /\ subs.y = subs.effectiveHeight - 1
  /\ subs.pixelIndex = 1998 * 8000 + 7998

\* ------------------------------------------------------------------------
\* C22
\* ------------------------------------------------------------------------
\* C22: while the columns of a job are synthesized every progress value posted
\* for it is at most 90; a job that has its result has posted one value for
\* each tenth column from column 0 on (round(90*x/W), at most 90), then 90
\* after the last column, 95 before the encoding, 100 after it, and the
\* result as its last message, after the 100.
C22_ProgressScale ==
  /\ wpc = "columns" =>
        \A i \in 1..Len(posted) :
           (posted[i].jobId = wreq.jobId /\ posted[i].type = "progress")
             => posted[i].progress <= 90
  /\ \A j \in IssuedJobs :
        HasResult(j) =>
          LET ms == MsgsOf(j)
              W == RequestOf(j).input.width
              k == CeilDiv(W, PROGRESS_INTERVAL)
          IN  /\ Len(ms) = k + 4
              /\ \A i \in 1..k :
                    /\ ms[i].type = "progress"
                    /\ ms[i].progress = MathRound(90 * (i - 1) * PROGRESS_INTERVAL, W)
                    /\ ms[i].progress <= 90
              /\ ms[k + 1].type = "progress" /\ ms[k + 1].progress = 90
              /\ ms[k + 2].type = "progress" /\ ms[k + 2].progress = 95
              /\ ms[k + 3].type = "progress" /\ ms[k + 3].progress = 100
              /\ ms[k + 4].type = "result"

\* a job on the widest image has its result: two values from the column
\* loop, the second strictly between 0 and 90
C22_Witness ==
  \E j \in IssuedJobs :
     /\ HasResult(j)
     /\ RequestOf(j).input.width = MaxWidth
     /\ MsgsOf(j)[2].progress > 0 /\ MsgsOf(j)[2].progress < 90

\* ------------------------------------------------------------------------
\* C23
\* ------------------------------------------------------------------------
\* C23: the buffer the encoder receives is the output of the column loop
\* normalized once; none of its samples exceeds 0.9 in absolute value, and
\* each 16-bit sample of the file is the scaled sample itself, the clamp of
\* the encoder having changed nothing.
C23_NormalizedOnceBeforeEncoding ==
  wav.status = "returned" =>
     LET once == normalizePCM(norm.input)
     IN  /\ norm.status = "returned"
         /\ norm.buffer = once
         /\ Len(wav.monoData) = Len(once)
         /\ \A i \in 1..Len(once) :
               LET sample == wav.monoData[i]
                   scaled == IF sample < 0 THEN sample * 32768 ELSE sample * 32767
               IN  /\ sample = Thousandths(once[i])
                   /\ sample >= -900 /\ sample <= 900
                   /\ clampSample(sample) = sample
                   /\ getInt16(wav.file, WAV_HEADER_SIZE + 4 * (i - 1))
                        = Trunc(scaled, SampleOne)

\* a buffer whose peak was 1.5 has been encoded: its peak is written as
\* trunc(0.9 * 32767) = 29490
C23_Witness ==
  /\ wav.status = "returned"
  /\ norm.input = <<Frac(500, SampleOne), Frac(1500, SampleOne)>>
  /\ wav.monoData = <<300, 900>>
  /\ getInt16(wav.file, WAV_HEADER_SIZE + 4) = 29490

\* ------------------------------------------------------------------------
\* C24
\* ------------------------------------------------------------------------
\* C24: the buffer encoded for a job has 44 + 4*floor(sampleRate*duration)
\* bytes, whatever the width and height of the image and the subsampling
\* steps.
C24_BufferSize ==
  wav.status = "returned" =>
     wav.fileSize
       = 44 + 4 * ((subs.sampleRate * subs.duration.num) \div subs.duration.den)

\* a subsampled image at 22050 Hz for a quarter of a second: 5512 samples
C24_Witness ==
  /\ wav.status = "returned"
  /\ subs.stepX = 2
  /\ subs.sampleRate = 22050 /\ subs.duration = Frac(1, 4)
  /\ wav.fileSize = 44 + 4 * 5512

\* ------------------------------------------------------------------------
\* C25
\* ------------------------------------------------------------------------
\* C25: when the worker handles a cancel message whose job id is not the id
\* of its current job (no job being current included), the cancellation
\* flag, the current job id, the engine and the posted messages stay as they
\* are; and every job handled, before or after such a message, has the
\* messages a worker that never got a cancel posts for it.
C25_ForeignCancelNoEffect ==
  [][ /\ (/\ taken' = taken + 1
          /\ requests[taken + 1].type = "cancel"
          /\ requests[taken + 1].jobId # currentJobId)
         => /\ isCancelled' = isCancelled
            /\ currentJobId' = currentJobId
            /\ wpc' = wpc /\ wreq' = wreq /\ pcm' = pcm
            /\ posted' = posted
      /\ \A j \in IssuedJobs :
            Handled(j) => MsgsOf(j) = FreshMessages(RequestOf(j)) ]_vars

\* the worker has handled a cancel message and, after it, a job to its result
C25_Witness ==
  \E i \in 1..taken :
     /\ requests[i].type = "cancel"
     /\ \E k \in (i + 1)..taken :
           /\ requests[k].type = "generate"
           /\ Handled(requests[k].jobId) /\ HasResult(requests[k].jobId)

Settled(j) ==
  /\ ~state.isBusy
  /\ \E i \in 1..delivered :
        /\ posted[i].jobId = j
        /\ \/ posted[i].type = "result" /\ state.result = posted[i].audioBuffer
           \/ posted[i].type = "error" /\ state.error = posted[i].message

\* C27: every generate request issued is eventually handled by the worker to
\* exactly one terminal message; and whenever the hook is busy with the most
\* recently issued job, either a later job is issued or the hook reaches
\* isBusy = false holding the result or the error of that job.
C27_EveryRequestAnswered ==
  \A j \in 1..MaxJobs :
     /\ (nextJobId > j) ~> (Handled(j) /\ NumTerminal(j) = 1)
     /\ (nextJobId = j + 1 /\ state.isBusy) ~> (nextJobId > j + 1 \/ Settled(j))

\* the last job that may be issued is settled with its result, a job before
\* it having been answered too
C27_Witness ==
  /\ nextJobId = MaxJobs + 1
  /\ Settled(MaxJobs) /\ state.result # NullBuf
  /\ NumTerminal(1) = 1

\* ------------------------------------------------------------------------
\* C28
\* ------------------------------------------------------------------------
\* the generate() call whose result useGeneration shows with status "ready":
\* the result, and the WAV blob made of it, are those of state.currentJobId
ShownCalls ==
  {t.call : t \in {u \in started : /\ status = "ready"
                                     /\ state.result # NullBuf
                                     /\ u.job = state.currentJobId}}

\* C28: a generate() call that was in flight, preprocessing or generating,
\* when cancel() was called never reaches status "ready" with its result.
C28_CancelStopsGeneration ==
  \A c \in cancelledIn : c.call \notin ShownCalls

\* ------------------------------------------------------------------------
\* C30
\* ------------------------------------------------------------------------
\* C30: generate() call b was made while call a was still preprocessing and is
\* the most recent call. Once both have reached generateAudio, the job tracked
\* by the hooks is b's: currentJobIdRef and the job of a stored result are b's
\* job, and usedParams, unless cleared by reset(), are b's parameters.
C30_LatestGenerationTracked ==
  \A a, b \in started :
     (a.call \in b.during /\ b.call = calls) =>
        /\ currentJobIdRef = b.job
        /\ usedParams \subseteq {b.params}
        /\ state.result # NullBuf => state.currentJobId = b.job

\* ------------------------------------------------------------------------
\* C29
\* ------------------------------------------------------------------------
\* C29: after any sequence of SET_PARAMS, UPDATE_PARAM and RESET actions the
\* params of the reducer's state are within every range with
\* minFreq < maxFreq, and its errors are empty.
C29_ReducerKeepsValid ==
  /\ ValidParams(paramsState.params)
  /\ paramsState.errors = {}

====
